---- MODULE Spec2Model ----
(***************************************************************************)
(* Verification model of the banking simulator (AlexShrike/banking-        *)
(* simulator).  Time is counted in integer ticks; one tick is the 100 ms   *)
(* polling interval of SimulationEngine.execute.  Speed multipliers are    *)
(* positive integers, so that simulated time stays exact.                  *)
(***************************************************************************)
EXTENDS Integers, Sequences, FiniteSets, TLC

\* ---------------------------------------------------------------- bounds
MaxNow == 6             \* real-time horizon of the stand-alone clock runs
MaxSpeed == 2           \* speed multipliers are drawn from 1..MaxSpeed

MaxRetries == 3         \* ConnectionConfig.max_retries is drawn from 0..MaxRetries
MaxRequests == 2        \* connector requests issued (and possibly in flight together)

MaxSockets == 2         \* WebSocket clients that may connect
MaxBroadcasts == 1      \* broadcast() calls (which may overlap)

DurationTicks == 3      \* config.duration_hours, in ticks of simulated time
MaxPauseTicks == 2      \* real time observed while the engine sits in one pause
MaxControlOps == 2      \* pause/resume/stop/set_speed calls made on the engine
MaxTxns == 1            \* transactions the loops generate in a run

MaxCustomers == 2       \* config.customers is drawn from 1..MaxCustomers
MaxAccountsPerCustomer == 2  \* config.accounts_per_customer, from 1..MaxAccountsPerCustomer
MaxLedgerAccounts == 2  \* accounts opened in the mock ledger when it runs on its own
MaxLedgerTxns == 2      \* deposits, withdrawals and transfers made on that ledger
MaxAmount == 5

\* the metrics collector: minutes of wall-clock time, transactions through the
\* submission pipeline, and points recorded by direct calls
MaxMetricsNow == 3
MaxPipelineTxns == 2
MaxArrivals == 4

\* the runner: ticks the scenario lasts
MaxRunTicks == 3

\* the message bus: calls of start_consumer and stop_consumer
MaxKafkaCalls == 3

\* messages handed to the message bus connector's publish methods
MaxPublishes == 3

\* requests served by the dashboard's control routes
MaxDashRequests == 3

\* the fraud generator: customers passed to a constructor, and the target
\* amount of a structuring profile
MaxTargets == 6
MaxTarget == 31

\* life events scheduled for a customer, and days of simulated time
MaxEvents == 2
MaxEventTime == 2

\* the idle sweep of the WebSocket manager: minutes of wall-clock time, and
\* the idle thresholds tried
MaxSweepNow == 3
MaxIdleMinutes == 2
MaxConcurrent == 3      \* calls made concurrently on the mock ledger
MaxFraudTicks == 2      \* iterations of the fraud loop inside a profile's interval
MaxScoreCalls == 5      \* score_transaction calls on one fraud-scoring connector
MaxHops == 3            \* metadata["hops"] of a layering profile
MaxLayerAccounts == 4   \* account_ids of a layering profile
MaxDurationHours == 2   \* config.duration_hours
MaxScheduled == 2       \* life events generated for one customer
MaxScenarioCalls == 3    \* get_builtin_scenario calls in one process

Speeds == 1..MaxSpeed

VARIABLES
    now,                \* datetime.now(): the real clock, in ticks
    clock,              \* the SimulationClock object (a record of its fields)
    clk_last_op,        \* the clock method called last ("tick" once time has moved on)
    clk_sim_before,     \* simulated time read immediately before that call
    clk_sim_at_pause,   \* simulated time read immediately before the pause() in effect
    clk_speed_in_pause  \* set_speed() was called during the pause in effect / just ended

clockVars == <<now, clock, clk_last_op, clk_sim_before, clk_sim_at_pause, clk_speed_in_pause>>

NoTime == -1            \* pause_start = None

\* ------------------------------------------------------- SimulationClock
\* SimulationClock.__init__
ClockNew(speed, t) ==
    [speed_multiplier |-> speed,
     real_start_time  |-> t,
     sim_start_time   |-> t,
     paused           |-> FALSE,
     pause_duration   |-> 0,
     pause_start      |-> NoTime]

\* SimulationClock.get_current_sim_time
get_current_sim_time(c, t) ==
    IF c.paused
    THEN c.sim_start_time
    ELSE c.sim_start_time
         + ((t - c.real_start_time) - c.pause_duration) * c.speed_multiplier

\* SimulationClock.pause
pause(c, t) ==
    IF ~c.paused
    THEN [c EXCEPT !.pause_start = t, !.paused = TRUE]
    ELSE c

ResumeDroppingEarlierPauses(c, t) ==
    IF c.paused /\ c.pause_start # NoTime
    THEN [c EXCEPT !.pause_duration = t - c.pause_start,
                   !.paused = FALSE,
                   !.pause_start = NoTime]
    ELSE c

\* SimulationClock.resume.  pause_start is a datetime or None; a datetime is
\* always truthy, so "and self.pause_start" is "is not None".
resume(c, t) ==
    IF c.paused /\ c.pause_start # NoTime
    THEN [c EXCEPT !.pause_duration = c.pause_duration + (t - c.pause_start),
                   !.paused = FALSE,
                   !.pause_start = NoTime]
    ELSE c

SetSpeedIgnoringPauses(c, t, m) ==
    [c EXCEPT !.real_start_time = t,
              !.sim_start_time = get_current_sim_time(c, t),
              !.speed_multiplier = m]

\* SimulationClock.set_speed
set_speed(c, t, m) ==
    [c EXCEPT !.real_start_time = t - c.pause_duration,
              !.sim_start_time = get_current_sim_time(c, t),
              !.speed_multiplier = m]

\* ------------------------------------------- the clock driven on its own
ClockInit ==
    /\ now = 0
    /\ clock \in {ClockNew(s, 0) : s \in Speeds}
    /\ clk_last_op = "init"
    /\ clk_sim_before = 0
    /\ clk_sim_at_pause = 0
    /\ clk_speed_in_pause = FALSE

\* real time passes
ClockTick ==
    /\ now < MaxNow
    /\ now' = now + 1
    /\ clk_last_op' = "tick"
    /\ UNCHANGED <<clock, clk_sim_before, clk_sim_at_pause, clk_speed_in_pause>>

ClockPause ==
    /\ clock' = pause(clock, now)
    /\ clk_last_op' = "pause"
    /\ clk_sim_before' = get_current_sim_time(clock, now)
    /\ clk_sim_at_pause' = IF clock.paused THEN clk_sim_at_pause
                           ELSE get_current_sim_time(clock, now)
    /\ clk_speed_in_pause' = IF clock.paused THEN clk_speed_in_pause ELSE FALSE
    /\ UNCHANGED now

ClockResume ==
    /\ clock' = resume(clock, now)
    /\ clk_last_op' = IF clock.paused THEN "resume" ELSE "resume_noop"
    /\ clk_sim_before' = get_current_sim_time(clock, now)
    /\ UNCHANGED <<now, clk_sim_at_pause, clk_speed_in_pause>>

ClockSetSpeed ==
    \E m \in Speeds :
        /\ clock' = set_speed(clock, now, m)
        /\ clk_last_op' = "set_speed"
        /\ clk_sim_before' = get_current_sim_time(clock, now)
        /\ clk_speed_in_pause' = (clock.paused \/ clk_speed_in_pause)
        /\ UNCHANGED <<now, clk_sim_at_pause>>




\* ------------------------------------------- NexumConnector / BastionConnector
\* The two connectors' _make_request are the same code up to the exception
\* class names; one model serves both.  total_latency_ms (a float sum of
\* wall-clock latencies) is not modelled; the errors list is modelled by its
\* length.
VARIABLES
    conn_kind,          \* "real" (NexumConnector/BastionConnector) or "mock" (Mock*Connector)
    max_retries,        \* self.max_retries
    conn_stats,         \* self.stats
    conn_req            \* the _make_request calls: position and outcome of each

connVars == <<conn_kind, max_retries, conn_stats, conn_req>>

Reqs == 1..MaxRequests

HttpStatuses == {200, 201, 204, 400, 404, 500, 503}

\* what one await self._client.request(...) can end in
Responses ==
    [kind : {"http"}, status : HttpStatuses]
    \cup [kind : {"timeout", "connect_error", "other_error"}, status : {0}]

NewRequest ==
    [pc |-> "idle", attempt |-> 0, attempts |-> 0, error |-> "none", status |-> 0,
     only_retryable |-> TRUE, first4xx_status |-> 0, first4xx_attempt |-> 0]

RetryRangeWithoutInitialAttempt(n) == 0..(n - 1)

\* range(self.max_retries + 1)
RetryRange(n) == 0..n

RetriesEveryErrorStatus(status) == status >= 400

\* "if response.status_code >= 500": the statuses that are retried
IsRetryableStatus(status) == status >= 500

Retryable(resp) ==
    \/ resp.kind \in {"timeout", "connect_error"}
    \/ resp.kind = "http" /\ resp.status >= 500

Raise(q, err, status) == [q EXCEPT !.pc = "raised", !.error = err, !.status = status]

\* the for loop moves to its next attempt, or is exhausted and falls through
\* to raise ...ConnectionError("Max retries exceeded")
NextIteration(q) ==
    IF q.attempt + 1 \in RetryRange(max_retries)
    THEN [q EXCEPT !.attempt = q.attempt + 1, !.attempts = q.attempts + 1, !.pc = "sent"]
    ELSE Raise(q, "connection", 0)

ConnInit ==
    /\ conn_kind \in {"real", "mock"}
    /\ max_retries \in 0..MaxRetries
    /\ conn_stats = [requests_sent |-> 0, requests_successful |-> 0,
                     requests_failed |-> 0, errors |-> 0]
    /\ conn_req = [r \in Reqs |-> NewRequest]

\* _make_request up to its first await: the real connector counts the request
\* and sends the first attempt; the mock sleeps before it counts anything.
ConnStart(r) ==
    /\ conn_req[r].pc = "idle"
    /\ IF conn_kind = "real"
       THEN /\ conn_stats' = [conn_stats EXCEPT !.requests_sent = @ + 1]
            /\ conn_req' = [conn_req EXCEPT ![r] =
                    IF 0 \in RetryRange(max_retries)
                    THEN [@ EXCEPT !.pc = "sent", !.attempts = 1]
                    ELSE Raise(@, "connection", 0)]
       ELSE /\ conn_req' = [conn_req EXCEPT ![r].pc = "mock_sleep"]
            /\ UNCHANGED conn_stats
    /\ UNCHANGED <<conn_kind, max_retries>>

\* one attempt of the real connector ends, and the code runs to its next await,
\* return or raise
ConnResponse(r) ==
    \E resp \in Responses :
        LET q  == conn_req[r]
            q1 == [q EXCEPT !.only_retryable = @ /\ Retryable(resp),
                            !.first4xx_status =
                                IF @ = 0 /\ resp.kind = "http"
                                   /\ resp.status >= 400 /\ resp.status < 500
                                THEN resp.status ELSE @,
                            !.first4xx_attempt =
                                IF @ = 0 /\ resp.kind = "http"
                                   /\ resp.status >= 400 /\ resp.status < 500
                                THEN q.attempts ELSE @]
            last == q.attempt = max_retries
        IN  /\ q.pc = "sent"
            /\ CASE resp.kind = "http" /\ (resp.status = 200 \/ resp.status = 201) ->
                      /\ conn_stats' = [conn_stats EXCEPT !.requests_successful = @ + 1]
                      /\ conn_req' = [conn_req EXCEPT ![r] = [q1 EXCEPT !.pc = "returned"]]
                 [] resp.kind = "http" /\ resp.status >= 400 /\ last ->
                      /\ conn_stats' = [conn_stats EXCEPT !.requests_failed = @ + 1,
                                                          !.errors = @ + 1]
                      /\ conn_req' = [conn_req EXCEPT ![r] = Raise(q1, "api", resp.status)]
                 [] resp.kind = "http" /\ resp.status >= 400 /\ ~last
                                       /\ IsRetryableStatus(resp.status) ->
                      /\ conn_req' = [conn_req EXCEPT ![r] = [q1 EXCEPT !.pc = "backoff"]]
                      /\ UNCHANGED conn_stats
                 [] resp.kind = "http" /\ resp.status >= 400 /\ ~last
                                       /\ ~IsRetryableStatus(resp.status) ->
                      /\ conn_stats' = [conn_stats EXCEPT !.requests_failed = @ + 1]
                      /\ conn_req' = [conn_req EXCEPT ![r] = Raise(q1, "api", resp.status)]
                 [] resp.kind = "http" /\ resp.status < 400
                                       /\ ~(resp.status = 200 \/ resp.status = 201) ->
                      \* neither branch of the if/elif: the loop goes on at once
                      /\ conn_req' = [conn_req EXCEPT ![r] = NextIteration(q1)]
                      /\ UNCHANGED conn_stats
                 [] resp.kind \in {"timeout", "connect_error"} /\ last ->
                      /\ conn_stats' = [conn_stats EXCEPT !.requests_failed = @ + 1,
                                                          !.errors = @ + 1]
                      /\ conn_req' = [conn_req EXCEPT ![r] = Raise(q1, "connection", 0)]
                 [] resp.kind \in {"timeout", "connect_error"} /\ ~last ->
                      /\ conn_req' = [conn_req EXCEPT ![r] = [q1 EXCEPT !.pc = "backoff"]]
                      /\ UNCHANGED conn_stats
                 [] resp.kind = "other_error" ->
                      \* not caught by either except clause: propagates
                      /\ conn_req' = [conn_req EXCEPT ![r] = Raise(q1, "other", 0)]
                      /\ UNCHANGED conn_stats
            /\ UNCHANGED <<conn_kind, max_retries>>

\* await asyncio.sleep(2 ** attempt) is over
ConnBackoffDone(r) ==
    /\ conn_req[r].pc = "backoff"
    /\ conn_req' = [conn_req EXCEPT ![r] = NextIteration(@)]
    /\ UNCHANGED <<conn_kind, max_retries, conn_stats>>

\* Mock*Connector._make_request after its sleep: counts the request as sent
\* and successful, then routes; a lookup of an unknown id raises a 404 API error
ConnMockComplete(r) ==
    \E found \in BOOLEAN :
        /\ conn_req[r].pc = "mock_sleep"
        /\ conn_stats' = [conn_stats EXCEPT !.requests_sent = @ + 1,
                                            !.requests_successful = @ + 1]
        /\ conn_req' = [conn_req EXCEPT ![r] =
                IF found THEN [@ EXCEPT !.pc = "returned"] ELSE Raise(@, "api", 404)]
        /\ UNCHANGED <<conn_kind, max_retries>>


\* ------------------------------------------------------ WebSocketManager
\* Message 0 is the connection_established confirmation that connect() sends
\* to its own socket; messages 1..MaxBroadcasts are broadcast() calls.
\* bytes_sent and the timestamps of connection_info are not modelled.
VARIABLES
    ws_sock,            \* each socket's transport: "new", "open" or "closed"
    active_connections, \* self.active_connections
    connection_info,    \* self.connection_info: socket -> its messages_sent
    ws_stats,           \* self.stats
    ws_bcast,           \* each broadcast() call: position and the copy() it iterates
    ws_result,          \* message -> socket -> state of the send_to_client task
    ws_delivered,       \* message -> socket -> copies the socket's transport received
    ws_close            \* close_all_connections(): the sockets of its copy() still to
                        \* close, and how many registrations its calls have cleared

wsVars == <<ws_sock, active_connections, connection_info, ws_stats, ws_bcast,
            ws_result, ws_delivered, ws_close>>

Sockets == 1..MaxSockets
Broadcasts == 1..MaxBroadcasts
Msgs == 0..MaxBroadcasts

WsInit ==
    /\ ws_sock = [s \in Sockets |-> "new"]
    /\ active_connections = {}
    /\ connection_info = <<>>
    /\ ws_stats = [total_connections |-> 0, active_connections |-> 0,
                   messages_sent |-> 0, messages_failed |-> 0]
    /\ ws_bcast = [b \in Broadcasts |-> [state |-> "new", snapshot |-> {}]]
    /\ ws_result = [m \in Msgs |-> [s \in Sockets |-> "none"]]
    /\ ws_delivered = [m \in Msgs |-> [s \in Sockets |-> 0]]
    /\ ws_close = [state |-> "idle", pending |-> {}, cleared |-> 0]

KeepsConnectionInfo(f, s) == f

\* "del self.connection_info[websocket]"
Without(f, s) == [x \in (DOMAIN f) \ {s} |-> f[x]]

KeepsFailedClient(active, s) == active

\* send_to_client's except branch: "if websocket in self.active_connections:
\* await self.disconnect(websocket)" leaves the active set without the socket
ActiveAfterSendFailure(active, s) == active \ {s}

\* WebSocketManager.connect: accept, register, then send the confirmation
WsConnect(s) ==
    /\ ws_sock[s] = "new"
    /\ \A x \in Sockets : x < s => ws_sock[x] # "new"   \* sockets are interchangeable
    /\ ws_sock' = [ws_sock EXCEPT ![s] = "open"]
    /\ active_connections' = active_connections \cup {s}
    /\ connection_info' = [x \in (DOMAIN connection_info) \cup {s} |->
                              IF x = s THEN 0 ELSE connection_info[x]]
    /\ ws_stats' = [ws_stats EXCEPT !.total_connections = @ + 1,
                                    !.active_connections = Cardinality(active_connections')]
    /\ ws_result' = [ws_result EXCEPT ![0][s] = "pending"]
    /\ UNCHANGED <<ws_bcast, ws_delivered, ws_close>>

\* the peer closes its end; the server learns of it later
WsPeerClose(s) ==
    /\ ws_sock[s] = "open"
    /\ ws_sock' = [ws_sock EXCEPT ![s] = "closed"]
    /\ UNCHANGED <<active_connections, connection_info, ws_stats, ws_bcast,
                   ws_result, ws_delivered, ws_close>>

\* WebSocketManager.disconnect, called by the endpoint handler once
\* receive_text reports the closed socket
WsDisconnect(s) ==
    /\ ws_sock[s] = "closed"
    /\ ws_result[0][s] # "pending"
    /\ s \in active_connections
    /\ active_connections' = active_connections \ {s}
    /\ connection_info' = Without(connection_info, s)
    /\ ws_stats' = [ws_stats EXCEPT !.active_connections = Cardinality(active_connections')]
    /\ UNCHANGED <<ws_sock, ws_bcast, ws_result, ws_delivered, ws_close>>

\* WebSocketManager.broadcast up to its await of gather: one send_to_client
\* task per socket of a copy of the active set
WsBroadcast(b) ==
    /\ ws_bcast[b].state = "new"
    /\ \A x \in Broadcasts : x < b => ws_bcast[x].state # "new"
    /\ IF active_connections = {}
       THEN /\ ws_bcast' = [ws_bcast EXCEPT ![b].state = "done"]
            /\ UNCHANGED ws_result
       ELSE /\ ws_bcast' = [ws_bcast EXCEPT ![b] =
                                [state |-> "gathering", snapshot |-> active_connections]]
            /\ ws_result' = [ws_result EXCEPT ![b] =
                                [s \in Sockets |->
                                    IF s \in active_connections THEN "pending" ELSE "none"]]
    /\ UNCHANGED <<ws_sock, active_connections, connection_info, ws_stats, ws_delivered,
                   ws_close>>

\* WebSocketManager.send_to_client: the awaited send_text ends, well or in an
\* exception (always an exception once the transport is closed)
WsSendDone(m, s) ==
    \E ok \in BOOLEAN :
        /\ ws_result[m][s] = "pending"
        /\ ok => ws_sock[s] = "open"
        /\ IF ok
           THEN /\ ws_delivered' = [ws_delivered EXCEPT ![m][s] = @ + 1]
                /\ ws_stats' = [ws_stats EXCEPT !.messages_sent = @ + 1]
                /\ connection_info' =
                       IF s \in DOMAIN connection_info
                       THEN [connection_info EXCEPT ![s] = @ + 1]
                       ELSE connection_info
                /\ ws_result' = [ws_result EXCEPT ![m][s] = "ok"]
                /\ UNCHANGED <<ws_sock, active_connections>>
           ELSE /\ active_connections' = ActiveAfterSendFailure(active_connections, s)
                /\ connection_info' =
                       IF s \in active_connections
                       THEN Without(connection_info, s)
                       ELSE connection_info
                /\ ws_stats' = [ws_stats EXCEPT
                                   !.messages_failed = @ + 1,
                                   !.active_connections =
                                       IF s \in active_connections
                                       THEN Cardinality(active_connections')
                                       ELSE @]
                /\ ws_result' = [ws_result EXCEPT ![m][s] = "failed"]
                /\ ws_sock' = [ws_sock EXCEPT ![s] = IF @ = "open" THEN "closed" ELSE @]
                /\ UNCHANGED ws_delivered
        /\ UNCHANGED <<ws_bcast, ws_close>>

\* gather returns once every task of the broadcast has finished
WsBroadcastReturn(b) ==
    /\ ws_bcast[b].state = "gathering"
    /\ \A s \in Sockets : ws_result[b][s] # "pending"
    /\ ws_bcast' = [ws_bcast EXCEPT ![b].state = "done"]
    /\ UNCHANGED <<ws_sock, active_connections, connection_info, ws_stats,
                   ws_result, ws_delivered, ws_close>>

\* the end of close_all_connections, after its last await: both collections
\* are cleared and the count is reset
ClearAll(pending) ==
    /\ active_connections' = {}
    /\ connection_info' = <<>>
    /\ ws_stats' = [ws_stats EXCEPT !.active_connections = 0]
    /\ ws_close' = [state |-> "idle", pending |-> pending,
                    cleared |-> ws_close.cleared + Cardinality(active_connections)]

\* WebSocketManager.close_all_connections up to its first await: it iterates
\* over a copy of the active set (and runs to its end if the copy is empty)
WsCloseAll ==
    /\ ws_close.state = "idle"
    /\ IF active_connections = {}
       THEN /\ ws_close.cleared > 0 \/ ws_stats.total_connections > 0
            /\ ClearAll({})
       ELSE /\ ws_close' = [ws_close EXCEPT !.state = "closing",
                                            !.pending = active_connections]
            /\ UNCHANGED <<active_connections, connection_info, ws_stats>>
    /\ UNCHANGED <<ws_sock, ws_bcast, ws_result, ws_delivered>>

\* an awaited websocket.close() of close_all_connections ends (what it raises
\* is swallowed); after the last one everything is cleared
WsCloseOne(s) ==
    /\ ws_close.state = "closing"
    /\ s \in ws_close.pending
    /\ ws_sock' = [ws_sock EXCEPT ![s] = "closed"]
    /\ IF ws_close.pending = {s}
       THEN ClearAll({})
       ELSE /\ ws_close' = [ws_close EXCEPT !.pending = @ \ {s}]
            /\ UNCHANGED <<active_connections, connection_info, ws_stats>>
    /\ UNCHANGED <<ws_bcast, ws_result, ws_delivered>>

\* ------------------------------------ WebSocketManager: the idle sweep
\* The manager with the last_activity timestamps of connection_info, in
\* minutes: connections, successful sends (which stamp last_activity),
\* disconnections and cleanup_stale_connections.
VARIABLES
    sw_now,           \* datetime.now()
    sw_sock,          \* each socket's transport: "new", "open" or "closed"
    sw_active,        \* self.active_connections
    sw_info,          \* self.connection_info: socket -> its last_activity
    sw_last           \* the last operation; for a sweep its cutoff_time, the
                      \* collections before it, and the transports it closed

sweepVars == <<sw_now, sw_sock, sw_active, sw_info, sw_last>>

NoSweep == [op |-> "none", cutoff |-> 0, active |-> {}, info |-> <<>>]

SweepInit ==
    /\ sw_now = 0
    /\ sw_sock = [s \in Sockets |-> "new"]
    /\ sw_active = {}
    /\ sw_info = <<>>
    /\ sw_last = NoSweep

\* a minute passes
SweepTick ==
    /\ sw_now < MaxSweepNow
    /\ sw_now' = sw_now + 1
    /\ sw_last' = [NoSweep EXCEPT !.op = "tick"]
    /\ UNCHANGED <<sw_sock, sw_active, sw_info>>

\* WebSocketManager.connect, its confirmation delivered
SweepConnect(s) ==
    /\ sw_sock[s] = "new"
    /\ \A x \in Sockets : x < s => sw_sock[x] # "new"
    /\ sw_sock' = [sw_sock EXCEPT ![s] = "open"]
    /\ sw_active' = sw_active \cup {s}
    /\ sw_info' = [x \in (DOMAIN sw_info) \cup {s} |-> IF x = s THEN sw_now ELSE sw_info[x]]
    /\ sw_last' = [NoSweep EXCEPT !.op = "connect"]
    /\ UNCHANGED sw_now

\* send_to_client succeeds (a broadcast, or the reply to a message of the
\* client): "if websocket in self.connection_info: ... last_activity = now"
SweepSend(s) ==
    /\ sw_sock[s] = "open"
    /\ sw_info' = IF s \in DOMAIN sw_info THEN [sw_info EXCEPT ![s] = sw_now] ELSE sw_info
    /\ sw_last' = [NoSweep EXCEPT !.op = "send"]
    /\ UNCHANGED <<sw_now, sw_sock, sw_active>>

\* the peer closes its socket and the endpoint calls disconnect
SweepDisconnect(s) ==
    /\ sw_sock[s] = "open"
    /\ sw_sock' = [sw_sock EXCEPT ![s] = "closed"]
    /\ sw_active' = sw_active \ {s}
    /\ sw_info' = Without(sw_info, s)
    /\ sw_last' = [NoSweep EXCEPT !.op = "disconnect"]
    /\ UNCHANGED sw_now

\* "if info["last_activity"] < cutoff_time: stale_connections.append(websocket)"
StaleConnections(info, cutoff_time) == {s \in DOMAIN info : info[s] < cutoff_time}

\* cleanup_stale_connections(max_idle_minutes): disconnect() for every stale
\* socket, which takes it out of both collections and does nothing else
SweepCleanup(max_idle_minutes) ==
    LET cutoff_time == sw_now - max_idle_minutes
        stale == StaleConnections(sw_info, cutoff_time)
    IN /\ sw_active' = sw_active \ stale
       /\ sw_info' = [x \in (DOMAIN sw_info) \ stale |-> sw_info[x]]
       /\ sw_last' = [op |-> "sweep", cutoff |-> cutoff_time, active |-> sw_active,
                      info |-> sw_info]
       /\ UNCHANGED <<sw_now, sw_sock>>

\* ---------------------------------------------------- MockNexumConnector
\* The in-memory ledger of dry-run mode.  Ids are the strings the mock builds
\* ("CUST_" and a counter; the zero padding is left out).  Amounts are counted
\* in quarter cents; a balance is kept in whole cents, as the ledger stores it
\* in a string with two decimals.  An endpoint is its sequence of path
\* segments: "/customers/CUST_1/accounts" is <<"customers", "CUST_1", "accounts">>.
VARIABLES
    mock,               \* the ledger: customers, accounts and the three id counters
    mock_last           \* the last call made on it: its arguments, its outcome and
                        \* the ledger it found

mockVars == <<mock, mock_last>>

CustId(n) == "CUST_" \o ToString(n)
AccId(n) == "ACC_" \o ToString(n)
TxnId(n) == "TXN_" \o ToString(n)

CustIds == {CustId(n) : n \in 1..MaxCustomers}
AccIds == {AccId(n) : n \in 1..MaxLedgerAccounts}
None == "None"

\* amounts with a fraction of a cent, none of them half-way between two cents
Amounts == {a \in 1..MaxAmount : a % 4 # 2}

\* f"{balance:.2f}": the balance the ledger stores, in cents
RoundToCents(q) == (q + 2) \div 4

\* MockNexumConnector.__init__
MockNew ==
    [customers |-> <<>>, accounts |-> <<>>,
     next_customer_id |-> 1, next_account_id |-> 1, next_transaction_id |-> 1]

Ok(m, body) == [mock |-> m, ok |-> TRUE, status |-> 200, body |-> body]
NotFound(m) == [mock |-> m, ok |-> FALSE, status |-> 404, body |-> <<>>]

With(f, k, v) == [x \in (DOMAIN f) \cup {k} |-> IF x = k THEN v ELSE f[x]]

mock_create_customer(m) ==
    LET id == CustId(m.next_customer_id) IN
    Ok([m EXCEPT !.next_customer_id = @ + 1,
                 !.customers = With(@, id, [id |-> id])],
       [customer_id |-> id])

mock_get_customer(m, customer_id) ==
    IF customer_id \notin DOMAIN m.customers
    THEN NotFound(m)
    ELSE Ok(m, m.customers[customer_id])

CreateAccountWithoutCounting(m, customer_id) ==
    LET id == AccId(m.next_account_id) IN
    Ok([m EXCEPT !.accounts = With(@, id, [id |-> id, customer_id |-> customer_id,
                                           balance |-> 0])],
       [account_id |-> id])

mock_create_account(m, customer_id) ==
    LET id == AccId(m.next_account_id) IN
    Ok([m EXCEPT !.next_account_id = @ + 1,
                 !.accounts = With(@, id, [id |-> id, customer_id |-> customer_id,
                                           balance |-> 0])],
       [account_id |-> id])

mock_get_account(m, account_id) ==
    IF account_id \notin DOMAIN m.accounts
    THEN NotFound(m)
    ELSE Ok(m, m.accounts[account_id])

mock_get_customer_accounts(m, customer_id) ==
    Ok(m, [accounts |-> {a \in DOMAIN m.accounts :
                            m.accounts[a].customer_id = customer_id}])

mock_deposit(m, account_id, amount) ==
    LET m1 == [m EXCEPT !.next_transaction_id = @ + 1] IN
    Ok(IF account_id \in DOMAIN m.accounts
       THEN [m1 EXCEPT !.accounts[account_id].balance = RoundToCents(4 * @ + amount)]
       ELSE m1,
       [transaction_id |-> TxnId(m.next_transaction_id), state |-> "processed"])

WithdrawsWithoutFunds(balance, amount) == TRUE

\* "if current_balance >= amount"
HasFunds(balance, amount) == 4 * balance >= amount

mock_withdraw(m, account_id, amount) ==
    LET m1 == [m EXCEPT !.next_transaction_id = @ + 1]
        id == TxnId(m.next_transaction_id)
    IN  IF account_id \in DOMAIN m.accounts
           /\ HasFunds(m.accounts[account_id].balance, amount)
        THEN Ok([m1 EXCEPT !.accounts[account_id].balance = RoundToCents(4 * @ - amount)],
                [transaction_id |-> id, state |-> "processed"])
        ELSE Ok(m1, [transaction_id |-> id, state |-> "declined"])

mock_transfer(m, from_account_id, to_account_id, amount) ==
    LET m1 == [m EXCEPT !.next_transaction_id = @ + 1]
        id == TxnId(m.next_transaction_id)
    IN  IF /\ from_account_id \in DOMAIN m.accounts
           /\ (to_account_id \in DOMAIN m.accounts \/ to_account_id = None)
           /\ HasFunds(m.accounts[from_account_id].balance, amount)
        THEN LET m2 == [m1 EXCEPT !.accounts[from_account_id].balance =
                                      RoundToCents(4 * @ - amount)]
             IN  Ok(IF to_account_id # None /\ to_account_id \in DOMAIN m.accounts
                    THEN [m2 EXCEPT !.accounts[to_account_id].balance =
                                        RoundToCents(4 * @ + amount)]
                    ELSE m2,
                    [transaction_id |-> id, state |-> "processed"])
        ELSE Ok(m1, [transaction_id |-> id, state |-> "declined"])

StartsWith(endpoint, segment) == Len(endpoint) >= 2 /\ endpoint[1] = segment
EndsWith(endpoint, segment) == Len(endpoint) >= 2 /\ endpoint[Len(endpoint)] = segment
LastSegment(endpoint) == endpoint[Len(endpoint)]

\* MockNexumConnector._make_request after its sleep: the first branch of the
\* if/elif chain that matches the endpoint serves the request
mock_make_request(m, method, endpoint, data) ==
    IF endpoint = <<"health">>
    THEN Ok(m, [status |-> "healthy"])
    ELSE IF endpoint = <<"customers">> /\ method = "POST"
    THEN mock_create_customer(m)
    ELSE IF StartsWith(endpoint, "customers") /\ method = "GET"
    THEN mock_get_customer(m, LastSegment(endpoint))
    ELSE IF endpoint = <<"accounts">> /\ method = "POST"
    THEN mock_create_account(m, data.customer_id)
    ELSE IF StartsWith(endpoint, "accounts") /\ ~EndsWith(endpoint, "transactions")
    THEN mock_get_account(m, LastSegment(endpoint))
    ELSE IF StartsWith(endpoint, "customers") /\ EndsWith(endpoint, "accounts")
    THEN mock_get_customer_accounts(m, endpoint[Len(endpoint) - 1])
    ELSE IF endpoint = <<"transactions", "deposit">>
    THEN mock_deposit(m, data.account_id, data.amount)
    ELSE IF endpoint = <<"transactions", "withdraw">>
    THEN mock_withdraw(m, data.account_id, data.amount)
    ELSE IF endpoint = <<"transactions", "transfer">>
    THEN mock_transfer(m, data.from_account_id, data.to_account_id, data.amount)
    ELSE Ok(m, [status |-> "ok"])

\* the connector's public methods, as MockNexumConnector inherits them
create_customer(m) == mock_make_request(m, "POST", <<"customers">>, <<>>)
get_customer(m, id) == mock_make_request(m, "GET", <<"customers", id>>, <<>>)
create_account(m, customer_id) ==
    mock_make_request(m, "POST", <<"accounts">>, [customer_id |-> customer_id])
get_account(m, id) == mock_make_request(m, "GET", <<"accounts", id>>, <<>>)
get_customer_accounts(m, id) ==
    mock_make_request(m, "GET", <<"customers", id, "accounts">>, <<>>)
deposit(m, id, amount) ==
    mock_make_request(m, "POST", <<"transactions", "deposit">>,
                      [account_id |-> id, amount |-> amount])
withdraw(m, id, amount) ==
    mock_make_request(m, "POST", <<"transactions", "withdraw">>,
                      [account_id |-> id, amount |-> amount])
transfer(m, from, to, amount) ==
    mock_make_request(m, "POST", <<"transactions", "transfer">>,
                      [from_account_id |-> from, to_account_id |-> to, amount |-> amount])

NoCall == [op |-> "none", id |-> None, to |-> None, amount |-> 0,
           ok |-> TRUE, status |-> 0, body |-> <<>>, before |-> MockNew]

MockInit ==
    /\ mock = MockNew
    /\ mock_last = NoCall

\* one call on the ledger: it is served in one piece once its sleep is over
Served(op, id, to, amount, r) ==
    /\ mock' = r.mock
    /\ mock_last' = [op |-> op, id |-> id, to |-> to, amount |-> amount,
                     ok |-> r.ok, status |-> r.status, body |-> r.body, before |-> mock]

LedgerCreateCustomer ==
    /\ mock.next_customer_id <= MaxCustomers
    /\ Served("create_customer", None, None, 0, create_customer(mock))

LedgerCreateAccount ==
    \E c \in CustIds :
        /\ mock.next_account_id <= MaxLedgerAccounts
        /\ Served("create_account", c, None, 0, create_account(mock, c))

LedgerGetCustomer ==
    \E c \in CustIds : Served("get_customer", c, None, 0, get_customer(mock, c))

LedgerGetAccount ==
    \E a \in AccIds : Served("get_account", a, None, 0, get_account(mock, a))

LedgerGetCustomerAccounts ==
    \E c \in CustIds :
        Served("get_customer_accounts", c, None, 0, get_customer_accounts(mock, c))

LedgerDeposit ==
    \E a \in AccIds, x \in Amounts :
        /\ mock.next_transaction_id <= MaxLedgerTxns
        /\ Served("deposit", a, None, x, deposit(mock, a, x))

LedgerWithdraw ==
    \E a \in AccIds, x \in Amounts :
        /\ mock.next_transaction_id <= MaxLedgerTxns
        /\ Served("withdraw", a, None, x, withdraw(mock, a, x))

LedgerTransfer ==
    \E a \in AccIds, b \in AccIds \cup {None}, x \in Amounts :
        /\ mock.next_transaction_id <= MaxLedgerTxns
        /\ Served("transfer", a, b, x, transfer(mock, a, b, x))

\* ----------------------- BastionConnector / MockBastionConnector: scoring
\* self.stats of one connector, and what its callers got back.  The latency
\* totals and avg_risk_score are left out: they are written next to the
\* counters and never read by them.
VARIABLES
    bs_mock,            \* TRUE: the connector is a MockBastionConnector
    bs_stats,           \* transactions_scored and decisions of self.stats
    bs_calls,           \* score_transaction calls made
    bs_returned         \* results returned to the callers, by decision

scoreVars == <<bs_mock, bs_stats, bs_calls, bs_returned>>

Decisions == {"approve", "review", "decline"}
RiskTenths == 0..10

NoDecisions == [d \in Decisions |-> 0]

DecisionSum(decisions) ==
    decisions["approve"] + decisions["review"] + decisions["decline"]

ScoreIdle ==
    /\ bs_mock = FALSE
    /\ bs_stats = [transactions_scored |-> 0, decisions |-> NoDecisions]
    /\ bs_calls = 0
    /\ bs_returned = NoDecisions

ScoreInit ==
    /\ bs_mock \in BOOLEAN
    /\ bs_stats = [transactions_scored |-> 0, decisions |-> NoDecisions]
    /\ bs_calls = 0
    /\ bs_returned = NoDecisions

\* "if risk_score >= 0.8 ... elif risk_score >= 0.5 ... else", in tenths
MockAction(risk) ==
    IF risk >= 8 THEN "DECLINE" ELSE IF risk >= 5 THEN "REVIEW" ELSE "APPROVE"

lower(action) ==
    CASE action = "DECLINE" -> "decline"
      [] action = "REVIEW" -> "review"
      [] action = "APPROVE" -> "approve"
      [] OTHER -> action

\* the tail of _mock_score_transaction: "Track statistics"
mock_score_transaction(stats, risk) ==
    [result |-> [action |-> MockAction(risk), risk_score |-> risk],
     stats |-> [stats EXCEPT !.transactions_scored = @ + 1,
                             !.decisions[lower(MockAction(risk))] = @ + 1]]

\* score_transaction after _make_request returned result: "Track scoring
\* statistics" and "Update decision counts"
TrackScore(stats, result) ==
    [stats EXCEPT !.transactions_scored = @ + 1,
                  !.decisions = IF lower(result.action) \in DOMAIN @
                                THEN [@ EXCEPT ![lower(result.action)] = @ + 1]
                                ELSE @]

\* BastionConnector.score_transaction against the service: the request
\* either raises, and nothing is tracked, or returns the service's decision
RealScore ==
    /\ ~bs_mock
    /\ bs_calls < MaxScoreCalls
    /\ bs_calls' = bs_calls + 1
    /\ \/ UNCHANGED <<bs_stats, bs_returned>>
       \/ \E action \in {"APPROVE", "REVIEW", "DECLINE"}, risk \in RiskTenths :
            LET result == [action |-> action, risk_score |-> risk]
            IN /\ bs_stats' = TrackScore(bs_stats, result)
               /\ bs_returned' = [bs_returned EXCEPT ![lower(action)] = @ + 1]
    /\ UNCHANGED bs_mock

\* score_transaction on a MockBastionConnector: the inherited method, whose
\* _make_request is the mock's and routes "/score" to _mock_score_transaction
MockScore ==
    /\ bs_mock
    /\ bs_calls < MaxScoreCalls
    /\ bs_calls' = bs_calls + 1
    /\ \E risk \in RiskTenths :
         LET m == mock_score_transaction(bs_stats, risk)
         IN /\ bs_stats' = TrackScore(m.stats, m.result)
            /\ bs_returned' = [bs_returned EXCEPT ![lower(m.result.action)] = @ + 1]
    /\ UNCHANGED bs_mock

\* ------------------------------- MockNexumConnector: concurrent calls
\* Calls issued by tasks that run concurrently (the gathers of bulk setup, the
\* engine's loops).  Every call first awaits the sleep of _make_request; the
\* calls asleep wake in any order, and the code from the wake-up to the
\* return has no await, so it runs as one step.
VARIABLES
    mc_calls,       \* the calls issued: operation, arguments, "asleep" or "done",
                    \* and the id the call returned
    mc_served       \* the calls in the order they were served

concVars == <<mc_calls, mc_served>>

ConcIdle ==
    /\ mc_calls = <<>>
    /\ mc_served = <<>>

\* the amounts of the concurrent deposits, withdrawals and transfers: whole cents
ConcAmounts == {a \in Amounts : a % 4 = 0}

ConcRequests ==
    [op : {"create_customer"}, id : {None}, to : {None}]
    \cup [op : {"create_account"}, id : CustIds, to : {None}]
    \cup [op : {"deposit", "withdraw"}, id : AccIds, to : {None}]
    \cup [op : {"transfer"}, id : AccIds, to : AccIds \cup {None}]

\* a task calls a method of the connector and is suspended in the sleep
ConcCall ==
    \E q \in ConcRequests, x \in ConcAmounts :
        /\ Len(mc_calls) < MaxConcurrent
        /\ mc_calls' = Append(mc_calls, [op |-> q.op, id |-> q.id, to |-> q.to,
                                         amount |-> x, pc |-> "asleep",
                                         returned |-> None])
        /\ UNCHANGED <<mc_served, mockVars>>

ConcResult(q) ==
    CASE q.op = "create_customer" -> create_customer(mock)
      [] q.op = "create_account" -> create_account(mock, q.id)
      [] q.op = "deposit" -> deposit(mock, q.id, q.amount)
      [] q.op = "withdraw" -> withdraw(mock, q.id, q.amount)
      [] OTHER -> transfer(mock, q.id, q.to, q.amount)

ReturnedId(q, body) ==
    CASE q.op = "create_customer" -> body.customer_id
      [] q.op = "create_account" -> body.account_id
      [] OTHER -> body.transaction_id

\* the sleep of one suspended call is over: the request is routed and served
ConcServe ==
    \E i \in DOMAIN mc_calls :
        LET q == mc_calls[i]
            r == ConcResult(q)
        IN  /\ q.pc = "asleep"
            /\ Served(q.op, q.id, q.to, q.amount, r)
            /\ mc_calls' = [mc_calls EXCEPT ![i] =
                               [@ EXCEPT !.pc = "done", !.returned = ReturnedId(q, r.body)]]
            /\ mc_served' = Append(mc_served, i)

\* ------------------------------------------------------ SimulationEngine
\* The execution phase: execute(), the control methods and the background
\* loops, as asyncio runs them: each action is the code between two awaits.
VARIABLES
    eng_pc,             \* execute(): "idle", "poll" (asleep at the end of the loop body),
                        \* "paused" (asleep in the pause loop), "wait_tasks", "returned",
                        \* "reported" (generate_report has run)
    is_running,         \* self.state.is_running
    is_paused,          \* self.state.is_paused
    stop_requested,     \* self._stop_requested
    pause_requested,    \* self._pause_requested
    start_time,         \* self.state.start_time
    current_sim_time,   \* self.state.current_sim_time (NoTime: None)
    exec_sim_time,      \* execute()'s local sim_time
    config_speed,       \* self.config.speed_multiplier
    kafka_kind,         \* self.kafka_connector: "none", "real" or "mock"
    loop,               \* the background tasks: position, transactions left in
                        \* the batch in hand, and whether a step of the
                        \* transaction in hand has raised
    runtime_stats,      \* self.runtime_stats
    ctl_ops,            \* control calls made so far
    txns_generated,     \* transactions put into batches so far
    txns_started,       \* _process_single_transaction calls so far
    failed_txns,        \* finished transactions in which some pipeline step raised
    work_while_paused,  \* a loop generated or submitted while state.is_paused
    frozen_sim          \* simulated time read right after the engine paused the clock

engVars == <<eng_pc, is_running, is_paused, stop_requested, pause_requested,
             start_time, current_sim_time, exec_sim_time, config_speed, kafka_kind,
             loop, runtime_stats, ctl_ops, txns_generated, txns_started,
             failed_txns, work_while_paused, frozen_sim>>

TxLoops == {"transaction", "fraud"}
Loops == {"transaction", "fraud", "metrics", "kafka"}

NoTask == [pc |-> "none", left |-> 0, raised |-> FALSE]

\* end_time = self.state.start_time + timedelta(hours=self.config.duration_hours)
end_time == start_time + DurationTicks

EngineInit ==
    /\ now = 0
    /\ clock \in {ClockNew(m, 0) : m \in Speeds}
    /\ config_speed = clock.speed_multiplier
    /\ clk_last_op = "init"
    /\ clk_sim_before = 0
    /\ clk_sim_at_pause = 0
    /\ clk_speed_in_pause = FALSE
    /\ eng_pc = "idle"
    /\ is_running = FALSE
    /\ is_paused = FALSE
    /\ stop_requested = FALSE
    /\ pause_requested = FALSE
    /\ start_time = NoTime
    /\ current_sim_time = NoTime
    /\ exec_sim_time = NoTime
    /\ kafka_kind \in {"none", "real", "mock"}
    /\ loop = [l \in Loops |-> NoTask]
    /\ runtime_stats = [errors |-> 0, transactions_processed |-> 0, fraud_transactions |-> 0]
    /\ ctl_ops = 0
    /\ txns_generated = 0
    /\ txns_started = 0
    /\ failed_txns = 0
    /\ work_while_paused = FALSE
    /\ frozen_sim = NoTime

clkHist == <<clk_last_op, clk_sim_before, clk_sim_at_pause, clk_speed_in_pause>>
loopVars == <<loop, runtime_stats, txns_generated, txns_started, failed_txns,
              work_while_paused>>
execVars == <<eng_pc, is_running, is_paused, start_time, current_sim_time,
              exec_sim_time, frozen_sim>>

\* ---- control methods (called by the dashboard and the CLI at any time)
\* SimulationEngine.pause
EnginePause ==
    /\ ctl_ops < MaxControlOps
    /\ ctl_ops' = ctl_ops + 1
    /\ pause_requested' = TRUE
    /\ UNCHANGED <<now, clock, clkHist, execVars, loopVars, stop_requested,
                   config_speed, kafka_kind>>

\* SimulationEngine.resume
EngineResume ==
    /\ ctl_ops < MaxControlOps
    /\ ctl_ops' = ctl_ops + 1
    /\ pause_requested' = FALSE
    /\ UNCHANGED <<now, clock, clkHist, execVars, loopVars, stop_requested,
                   config_speed, kafka_kind>>

\* SimulationEngine.stop
EngineStop ==
    /\ ctl_ops < MaxControlOps
    /\ ctl_ops' = ctl_ops + 1
    /\ stop_requested' = TRUE
    /\ UNCHANGED <<now, clock, clkHist, execVars, loopVars, pause_requested,
                   config_speed, kafka_kind>>

\* SimulationEngine.set_speed
EngineSetSpeedTo(m) ==
    /\ ctl_ops < MaxControlOps
    /\ ctl_ops' = ctl_ops + 1
    /\ config_speed' = m
    /\ clock' = set_speed(clock, now, m)
    /\ UNCHANGED <<now, clkHist, execVars, loopVars, stop_requested,
                   pause_requested, kafka_kind>>

\* set_speed called with a multiplier the configuration accepts
EngineSetSpeed == \E m \in Speeds : EngineSetSpeedTo(m)

\* ---- execute()
PauseWaitIgnoresStop == ~pause_requested

\* "while self._pause_requested and not self._stop_requested" is over
PauseWaitOver == ~(pause_requested /\ ~stop_requested)

\* one pass of "while self.state.is_running and not self._stop_requested",
\* from its condition to the next await, on clock c with is_running = running
LoopBody(c, running, t) ==
    LET sim == get_current_sim_time(c, t) IN
    IF ~(running /\ ~stop_requested)
    THEN /\ eng_pc' = "wait_tasks"
         /\ is_running' = FALSE
         /\ clock' = c
         /\ UNCHANGED <<is_paused, current_sim_time, exec_sim_time, frozen_sim>>
    ELSE IF sim >= end_time'
    THEN /\ eng_pc' = "wait_tasks"
         /\ is_running' = FALSE
         /\ clock' = c
         /\ exec_sim_time' = sim
         /\ UNCHANGED <<is_paused, current_sim_time, frozen_sim>>
    ELSE IF pause_requested
    THEN /\ eng_pc' = "paused"
         /\ is_running' = running
         /\ is_paused' = TRUE
         /\ clock' = pause(c, t)
         /\ exec_sim_time' = sim
         /\ frozen_sim' = get_current_sim_time(clock', t)
         /\ UNCHANGED current_sim_time
    ELSE /\ eng_pc' = "poll"
         /\ is_running' = running
         /\ clock' = c
         /\ exec_sim_time' = sim
         /\ current_sim_time' = sim
         /\ UNCHANGED <<is_paused, frozen_sim>>

\* execute() from its first line to its first await: anchors the clock,
\* creates the loops' tasks and runs the first pass of the main loop
ExecStart ==
    /\ eng_pc = "idle"
    /\ start_time' = now
    /\ loop' = [l \in Loops |->
                   IF l = "kafka" /\ kafka_kind = "none"
                   THEN NoTask
                   ELSE [NoTask EXCEPT !.pc = "sleep"]]
    /\ LoopBody([clock EXCEPT !.real_start_time = now, !.sim_start_time = now], TRUE, now)
    /\ UNCHANGED <<now, clkHist, stop_requested, pause_requested, config_speed,
                   kafka_kind, runtime_stats, ctl_ops, txns_generated, txns_started,
                   failed_txns, work_while_paused>>

\* the sleep(0.1) at the end of the loop body is over: a tick has passed
ExecPoll ==
    /\ eng_pc = "poll"
    /\ now' = now + 1
    /\ UNCHANGED start_time
    /\ LoopBody(clock, is_running, now')
    /\ UNCHANGED <<clkHist, stop_requested, pause_requested,
                   config_speed, kafka_kind, loopVars, ctl_ops>>

\* a pause is followed for MaxPauseTicks ticks of real time
PauseTick == IF now - clock.pause_start < MaxPauseTicks THEN now + 1 ELSE now

\* the sleep(0.1) of the pause loop is over and the pause goes on
ExecPauseWait ==
    /\ eng_pc = "paused"
    /\ ~PauseWaitOver
    /\ now - clock.pause_start < MaxPauseTicks
    /\ now' = now + 1
    /\ UNCHANGED <<clock, clkHist, engVars>>

\* the sleep(0.1) of the pause loop is over and the pause has ended: resume
\* the clock, finish the loop body
ExecResume ==
    /\ eng_pc = "paused"
    /\ PauseWaitOver
    /\ now' = PauseTick
    /\ clock' = resume(clock, now')
    /\ is_paused' = FALSE
    /\ current_sim_time' = exec_sim_time
    /\ eng_pc' = "poll"
    /\ UNCHANGED <<clkHist, is_running, start_time, exec_sim_time, frozen_sim,
                   stop_requested, pause_requested, config_speed, kafka_kind,
                   loopVars, ctl_ops>>

TasksNotAwaited == TRUE

\* asyncio.gather(*self.background_tasks, return_exceptions=True) is over:
\* every task that was created has finished
TasksGathered == \A l \in Loops : loop[l].pc \in {"none", "done"}

\* _wait_for_tasks returns once every background task has finished
ExecReturn ==
    /\ eng_pc = "wait_tasks"
    /\ TasksGathered
    /\ eng_pc' = "returned"
    /\ UNCHANGED <<now, clock, clkHist, is_running, is_paused, start_time,
                   current_sim_time, exec_sim_time, frozen_sim, stop_requested,
                   pause_requested, config_speed, kafka_kind, loopVars, ctl_ops>>

\* run_scenario: after execute() has returned, generate_report reads the
\* run statistics and logs the summary
GenerateReport ==
    /\ eng_pc = "returned"
    /\ eng_pc' = "reported"
    /\ UNCHANGED <<now, clock, clkHist, is_running, is_paused, start_time,
                   current_sim_time, exec_sim_time, frozen_sim, stop_requested,
                   pause_requested, config_speed, kafka_kind, loopVars, ctl_ops>>

\* ---- the background loops
ctlVars == <<stop_requested, pause_requested, config_speed, kafka_kind, ctl_ops>>

\* the first await of _process_single_transaction: _submit_to_nexum
BeginTxn(t) == [t EXCEPT !.pc = "nexum", !.raised = FALSE]

\* _process_single_transaction ends for loop l.  Processed: the counters are
\* updated and the for loop of _process_transaction_batch /
\* _process_fraud_transactions goes on to the next transaction of the batch.
\* In its except branch: the log line reads transaction.transaction_id, a
\* field PendingTransaction does not have, so the handler raises
\* AttributeError before "self.runtime_stats.errors += 1"; the exception
\* reaches the except of the batch method, which logs it and returns, and the
\* rest of the batch is dropped.  After the batch the loop that called it
\* sleeps; _fraud_detection_loop may first go on to the batch of its next
\* active profile (n > 0).
FinishTxn(l, processed, step_raised) ==
    /\ runtime_stats' =
          IF processed
          THEN [runtime_stats EXCEPT
                   !.transactions_processed = @ + 1,
                   !.fraud_transactions = IF l = "fraud" THEN @ + 1 ELSE @]
          ELSE runtime_stats
    /\ failed_txns' = IF step_raised \/ loop[l].raised THEN failed_txns + 1 ELSE failed_txns
    /\ IF processed /\ loop[l].left > 1
       THEN /\ loop' = [loop EXCEPT ![l] = BeginTxn([@ EXCEPT !.left = @ - 1])]
            /\ txns_started' = txns_started + 1
            /\ work_while_paused' = (work_while_paused \/ is_paused)
            /\ UNCHANGED txns_generated
       ELSE \E n \in 0..(MaxTxns - txns_generated) :
               /\ n > 0 => l = "fraud"
               /\ IF n = 0
                  THEN /\ loop' = [loop EXCEPT ![l] = [@ EXCEPT !.pc = "sleep", !.left = 0,
                                                                !.raised = FALSE]]
                       /\ UNCHANGED <<txns_started, txns_generated, work_while_paused>>
                  ELSE /\ loop' = [loop EXCEPT ![l] = BeginTxn([@ EXCEPT !.left = n])]
                       /\ txns_generated' = txns_generated + n
                       /\ txns_started' = txns_started + 1
                       /\ work_while_paused' = (work_while_paused \/ is_paused)

\* _transaction_generation_loop / _fraud_detection_loop: the sleep at the end
\* of an iteration (or the task's creation) is over.  The loop ends when
\* is_running is false and sleeps again while is_paused; otherwise it
\* generates a batch and, if there is one, starts to process it.
LoopWake(l) ==
    /\ loop[l].pc = "sleep"
    /\ IF ~is_running
       THEN /\ loop' = [loop EXCEPT ![l].pc = "done"]
            /\ UNCHANGED <<txns_generated, txns_started, work_while_paused>>
       ELSE /\ ~is_paused
            /\ \E n \in 1..(MaxTxns - txns_generated) :
                  /\ loop' = [loop EXCEPT ![l] = BeginTxn([@ EXCEPT !.left = n])]
                  /\ txns_generated' = txns_generated + n
            /\ txns_started' = txns_started + 1
            /\ UNCHANGED work_while_paused
    /\ UNCHANGED <<now, clock, clkHist, execVars, ctlVars, runtime_stats, failed_txns>>

\* _submit_to_nexum returns (it swallows what the connector raises and reports
\* success False); _process_single_transaction goes on to _submit_to_bastion
NexumDone(l) ==
    \E raised \in BOOLEAN :
        /\ loop[l].pc = "nexum"
        /\ loop' = [loop EXCEPT ![l] = [@ EXCEPT !.pc = "bastion", !.raised = raised]]
        /\ work_while_paused' = (work_while_paused \/ is_paused)
        /\ UNCHANGED <<now, clock, clkHist, execVars, ctlVars, runtime_stats,
                       failed_txns, txns_generated, txns_started>>

\* _submit_to_bastion returns: a score, or the default result after it
\* swallowed what the connector raised, or a result whose "action" is not a
\* string, on which .upper() raises into the except branch.  Then the message
\* bus: none configured, the real connector (awaited) or the mock, whose
\* publish_transaction raises on json.dumps of the transaction's fields.
BastionDone(l) ==
    \E outcome \in {"scored", "raised", "malformed"} :
        /\ loop[l].pc = "bastion"
        /\ IF outcome = "malformed"
           THEN FinishTxn(l, FALSE, TRUE)
           ELSE IF kafka_kind = "none"
           THEN FinishTxn(l, TRUE, outcome = "raised")
           ELSE IF kafka_kind = "mock"
           THEN FinishTxn(l, FALSE, TRUE)
           ELSE /\ loop' = [loop EXCEPT ![l] =
                               [@ EXCEPT !.pc = "kafka_txn",
                                         !.raised = @ \/ outcome = "raised"]]
                /\ work_while_paused' = (work_while_paused \/ is_paused)
                /\ UNCHANGED <<runtime_stats, failed_txns, txns_generated, txns_started>>
        /\ UNCHANGED <<now, clock, clkHist, execVars, ctlVars>>

\* KafkaConnector.publish_transaction returns (True, or False after it caught
\* a failure); publish_fraud_decision is awaited next
KafkaTxnDone(l) ==
    \E failed \in BOOLEAN :
        /\ loop[l].pc = "kafka_txn"
        /\ loop' = [loop EXCEPT ![l] = [@ EXCEPT !.pc = "kafka_dec", !.raised = @ \/ failed]]
        /\ work_while_paused' = (work_while_paused \/ is_paused)
        /\ UNCHANGED <<now, clock, clkHist, execVars, ctlVars, runtime_stats,
                       failed_txns, txns_generated, txns_started>>

\* KafkaConnector.publish_fraud_decision returns; the counters are updated
KafkaDecDone(l) ==
    \E failed \in BOOLEAN :
        /\ loop[l].pc = "kafka_dec"
        /\ FinishTxn(l, TRUE, failed)
        /\ UNCHANGED <<now, clock, clkHist, execVars, ctlVars>>

\* _metrics_reporting_loop and _kafka_publishing_loop: they record gauges and
\* publish metrics snapshots while running, and end once is_running is false
ReportingLoopExit(l) ==
    /\ l \in {"metrics", "kafka"}
    /\ loop[l].pc = "sleep"
    /\ ~is_running
    /\ loop' = [loop EXCEPT ![l].pc = "done"]
    /\ UNCHANGED <<now, clock, clkHist, execVars, ctlVars, runtime_stats, failed_txns,
                   txns_generated, txns_started, work_while_paused>>

\* ------------------------------------------- SimulationEngine.__aexit__
\* The engine is left ("async with" block over, or its body raised or was
\* cancelled) in any state of execute() and its loops.  __aexit__ cancels
\* every task of background_tasks in one pass without an await, awaits them
\* with gather, stops the collector and closes the connectors.
VARIABLES
    td_pc,          \* "open", then __aexit__: "gather", "stop_metrics", "close_kafka",
                    \* "close_bastion", "close_nexum", "exited"; "raised" if a step raised
    td_cancelled,   \* the tasks task.cancel() was called on while they were not done
    td_closed       \* the components stopped or closed so far, in order

tdVars == <<td_pc, td_cancelled, td_closed>>

TdIdle ==
    /\ td_pc = "open"
    /\ td_cancelled = {}
    /\ td_closed = <<>>

\* the engine is inside its "async with" block, execute() and the loops run
TdOpen == td_pc = "open"

\* "for task in self.background_tasks: task.cancel()", then the await of
\* _wait_for_tasks begins.  cancel() on a finished task does nothing.
TdCancelTasks ==
    /\ td_pc = "open"
    /\ td_cancelled' = {l \in Loops : loop[l].pc \notin {"none", "done"}}
    /\ td_pc' = "gather"
    /\ UNCHANGED <<td_closed, clockVars, engVars>>

\* the tasks in the order the event loop resumes them
TaskOrder == <<"transaction", "fraud", "metrics", "kafka">>

NextCancelled(l) ==
    /\ l \in td_cancelled
    /\ loop[l].pc # "done"
    /\ \A i, j \in 1..Len(TaskOrder) :
          (TaskOrder[j] = l /\ i < j /\ TaskOrder[i] \in td_cancelled)
              => loop[TaskOrder[i]].pc = "done"

\* a cancelled task is resumed: CancelledError is raised at the await it was
\* suspended in.  It is not an Exception, so it passes the handlers of
\* _process_single_transaction and of the batch methods and reaches the
\* "except asyncio.CancelledError" of the loop, which logs it; the task ends
\* without another submission.
TdTaskCancelled(l) ==
    /\ td_pc = "gather"
    /\ NextCancelled(l)
    /\ loop' = [loop EXCEPT ![l] = [@ EXCEPT !.pc = "done"]]
    /\ UNCHANGED <<td_pc, td_cancelled, td_closed, clockVars, eng_pc, is_running,
                   is_paused, stop_requested, pause_requested, start_time,
                   current_sim_time, exec_sim_time, config_speed, kafka_kind,
                   runtime_stats, ctl_ops, txns_generated, txns_started,
                   failed_txns, work_while_paused, frozen_sim>>

TeardownNotAwaited == TRUE

\* "await self._wait_for_tasks()" is over
TeardownAwaited == TasksGathered

\* _wait_for_tasks returns; metrics_collector.stop() is awaited next
TdGathered ==
    /\ td_pc = "gather"
    /\ TeardownAwaited
    /\ td_pc' = "stop_metrics"
    /\ UNCHANGED <<td_cancelled, td_closed, clockVars, engVars>>

\* metrics_collector.stop(): the collection task is cancelled and awaited and
\* the CSV export, if configured, is written; a failing export raises out of
\* __aexit__
TdStopMetrics ==
    \E raised \in BOOLEAN :
        /\ td_pc = "stop_metrics"
        /\ IF raised
           THEN td_pc' = "raised" /\ UNCHANGED td_closed
           ELSE /\ td_closed' = Append(td_closed, "metrics")
                /\ td_pc' = IF kafka_kind # "none" THEN "close_kafka" ELSE "close_bastion"
        /\ UNCHANGED <<td_cancelled, clockVars, engVars>>

\* "await <connector>.__aexit__(...)": the connector is closed, or closing raises
TdClose(pc, connector, next) ==
    \E raised \in BOOLEAN :
        /\ td_pc = pc
        /\ IF raised
           THEN td_pc' = "raised" /\ UNCHANGED td_closed
           ELSE /\ td_closed' = Append(td_closed, connector)
                /\ td_pc' = next
        /\ UNCHANGED <<td_cancelled, clockVars, engVars>>

TdCloseKafka == TdClose("close_kafka", "kafka", "close_bastion")

TdCloseBastion == TdClose("close_bastion", "bastion", "close_nexum")

TdCloseNexum == TdClose("close_nexum", "nexum", "exited")

\* ------------------------------------------------ SimulationEngine.setup
\* setup() with its connectors.  In dry-run mode the core-banking connector is
\* the mock ledger above; otherwise a call on the real connector either fails
\* (the connector raises) or is served by a server that keeps a ledger of the
\* same kind.  Life events and fraud patterns are prepared in the last step.
VARIABLES
    setup_pc,           \* where setup() is: "idle", "health_nexum", "health_bastion",
                        \* "health_kafka", "customers", "accounts", "balances",
                        \* "done" or "aborted" (it raised)
    setup_cfg,          \* config: dry_run, customers, accounts_per_customer,
                        \* initial_balance, and whether a message bus is configured
    setup_health,       \* how each system answered the health check
    state_customers,    \* self.state.customers: the customer_id of each profile
    customer_accounts,  \* self.state.customer_accounts
    setup_tasks,        \* the tasks of the gather() in progress: "pending", "done"
    setup_stats         \* runtime_stats: customers_created, accounts_created, errors

setupVars == <<setup_pc, setup_cfg, setup_health, state_customers, customer_accounts,
               setup_tasks, setup_stats>>

\* CustomerGenerator._generate_customer_id, for the i-th profile
GenId(i) == "GEN_" \o ToString(i)

\* the amount _seed_initial_balance deposits: one cent
SeedAmount == 4

SetupConfigs ==
    [dry_run : BOOLEAN, customers : 1..MaxCustomers,
     accounts_per_customer : 1..MaxAccountsPerCustomer,
     initial_balance : {SeedAmount}, kafka : BOOLEAN]

SetupIdle ==
    /\ setup_pc = "idle"
    /\ setup_cfg = [dry_run |-> TRUE, customers |-> 1, accounts_per_customer |-> 1,
                    initial_balance |-> SeedAmount, kafka |-> FALSE]
    /\ setup_health = [nexum |-> "unknown", bastion |-> "unknown"]
    /\ state_customers = <<>>
    /\ customer_accounts = <<>>
    /\ setup_tasks = <<>>
    /\ setup_stats = [customers_created |-> 0, accounts_created |-> 0, errors |-> 0]

SetupInit ==
    /\ setup_pc = "idle"
    /\ setup_cfg \in SetupConfigs
    /\ setup_health = [nexum |-> "unknown", bastion |-> "unknown"]
    /\ state_customers = <<>>
    /\ customer_accounts = <<>>
    /\ setup_tasks = <<>>
    /\ setup_stats = [customers_created |-> 0, accounts_created |-> 0, errors |-> 0]

\* what a system does with the /health request: it answers healthy, answers
\* something else, or cannot be reached; the mocks always answer healthy
HealthOutcomes == IF setup_cfg.dry_run THEN {"healthy"} ELSE {"healthy", "unhealthy", "unreachable"}

\* NexumConnector.health_check / BastionConnector.health_check: whatever
\* _make_request raises is caught and reported as status "unhealthy"
health_check(outcome) ==
    [raised |-> FALSE, status |-> IF outcome = "healthy" THEN "healthy" ELSE "unhealthy"]

\* the except branch of _health_check_systems: "if not self.config.dry_run: raise"
HealthCheckAborts(result) == result.raised /\ ~setup_cfg.dry_run

\* setup() up to its first await, in _health_check_systems
SetupStart ==
    /\ setup_pc = "idle"
    /\ setup_pc' = "health_nexum"
    /\ UNCHANGED <<setup_cfg, setup_health, state_customers, customer_accounts,
                   setup_tasks, setup_stats, mockVars>>

SetupHealthNexum ==
    \E o \in HealthOutcomes :
        /\ setup_pc = "health_nexum"
        /\ setup_health' = [setup_health EXCEPT !.nexum = o]
        /\ setup_pc' = IF HealthCheckAborts(health_check(o)) THEN "aborted" ELSE "health_bastion"
        /\ UNCHANGED <<setup_cfg, state_customers, customer_accounts, setup_tasks,
                       setup_stats, mockVars>>

\* the customers are generated and one _create_customer task each is gathered
GenerateCustomers ==
    /\ state_customers' = [i \in 1..setup_cfg.customers |-> GenId(i)]
    /\ setup_tasks' = [i \in 1..setup_cfg.customers |-> "pending"]
    /\ setup_pc' = "customers"

SetupHealthBastion ==
    \E o \in HealthOutcomes :
        /\ setup_pc = "health_bastion"
        /\ setup_health' = [setup_health EXCEPT !.bastion = o]
        /\ IF HealthCheckAborts(health_check(o))
           THEN /\ setup_pc' = "aborted"
                /\ UNCHANGED <<state_customers, setup_tasks>>
           ELSE IF setup_cfg.kafka
           THEN /\ setup_pc' = "health_kafka"
                /\ UNCHANGED <<state_customers, setup_tasks>>
           ELSE GenerateCustomers
        /\ UNCHANGED <<setup_cfg, customer_accounts, setup_stats, mockVars>>

\* the message bus's health check never ends setup
SetupHealthKafka ==
    /\ setup_pc = "health_kafka"
    /\ GenerateCustomers
    /\ UNCHANGED <<setup_cfg, setup_health, customer_accounts, setup_stats, mockVars>>

CallFailsInAnyMode == {FALSE, TRUE}

\* a call on the core-banking connector ends: served by the ledger, or in an
\* exception.  The mock never raises; the real connector raises on every call
\* of a run whose server was not healthy when setup checked it.
CallFails == IF setup_cfg.dry_run THEN {FALSE} ELSE {setup_health.nexum # "healthy"}

\* _create_customer for profile i, from the connector's answer to its end
SetupCustomerDone(i) ==
    \E failed \in CallFails :
        /\ setup_pc = "customers"
        /\ i \in DOMAIN setup_tasks
        /\ setup_tasks[i] = "pending"
        /\ setup_tasks' = [setup_tasks EXCEPT ![i] = "done"]
        /\ IF failed
           THEN /\ setup_stats' = [setup_stats EXCEPT !.errors = @ + 1]
                /\ UNCHANGED <<state_customers, mock>>
           ELSE LET r == create_customer(mock) IN
                /\ mock' = r.mock
                /\ state_customers' = [state_customers EXCEPT ![i] = r.body.customer_id]
                /\ UNCHANGED setup_stats
        /\ UNCHANGED <<setup_pc, setup_cfg, setup_health, customer_accounts, mock_last>>

AllDone == \A t \in DOMAIN setup_tasks : setup_tasks[t] = "done"

\* gather returns; one _create_account task per customer and account index
SetupCustomersGathered ==
    /\ setup_pc = "customers"
    /\ AllDone
    /\ setup_tasks' = [t \in (1..setup_cfg.customers) \X (1..setup_cfg.accounts_per_customer)
                          |-> "pending"]
    /\ setup_pc' = "accounts"
    /\ UNCHANGED <<setup_cfg, setup_health, state_customers, customer_accounts,
                   setup_stats, mockVars>>

\* _create_account for profile i, from the connector's answer to its end.
\* The tasks of one customer differ in nothing that is kept here, so they
\* are answered in the order of their index.
SetupAccountDone(i, j) ==
    \E failed \in CallFails :
        /\ setup_pc = "accounts"
        /\ <<i, j>> \in DOMAIN setup_tasks
        /\ setup_tasks[<<i, j>>] = "pending"
        /\ \A k \in 1..(j - 1) : setup_tasks[<<i, k>>] = "done"
        /\ setup_tasks' = [setup_tasks EXCEPT ![<<i, j>>] = "done"]
        /\ IF failed
           THEN /\ setup_stats' = [setup_stats EXCEPT !.errors = @ + 1]
                /\ UNCHANGED <<customer_accounts, mock>>
           ELSE LET c == state_customers[i]
                    r == create_account(mock, c)
                    had == IF c \in DOMAIN customer_accounts THEN customer_accounts[c] ELSE {}
                IN  /\ mock' = r.mock
                    /\ customer_accounts' = With(customer_accounts, c, had \cup {r.body.account_id})
                    /\ UNCHANGED setup_stats
        /\ UNCHANGED <<setup_pc, setup_cfg, setup_health, state_customers, mock_last>>

\* gather returns; one _seed_initial_balance task per account of the mapping
SetupAccountsGathered ==
    /\ setup_pc = "accounts"
    /\ AllDone
    /\ setup_tasks' = [a \in UNION {customer_accounts[c] : c \in DOMAIN customer_accounts}
                          |-> "pending"]
    /\ setup_pc' = "balances"
    /\ UNCHANGED <<setup_cfg, setup_health, state_customers, customer_accounts,
                   setup_stats, mockVars>>

\* _seed_initial_balance for account a, from the connector's answer to its
\* end.  The deposits go to different accounts and do not affect each other,
\* so they are answered in one fixed order.
SetupBalanceDone(a) ==
    \E failed \in CallFails :
        /\ setup_pc = "balances"
        /\ a \in DOMAIN setup_tasks
        /\ setup_tasks[a] = "pending"
        /\ a = CHOOSE x \in DOMAIN setup_tasks : setup_tasks[x] = "pending"
        /\ setup_tasks' = [setup_tasks EXCEPT ![a] = "done"]
        /\ IF failed
           THEN /\ setup_stats' = [setup_stats EXCEPT !.errors = @ + 1]
                /\ UNCHANGED mock
           ELSE /\ mock' = deposit(mock, a, setup_cfg.initial_balance).mock
                /\ UNCHANGED setup_stats
        /\ UNCHANGED <<setup_pc, setup_cfg, setup_health, state_customers,
                       customer_accounts, mock_last>>

RECURSIVE SumOfSizes(_)
\* sum(len(accounts) for accounts in customer_accounts.values())
SumOfSizes(f) ==
    IF DOMAIN f = {}
    THEN 0
    ELSE LET k == CHOOSE x \in DOMAIN f : TRUE
         IN  Cardinality(f[k]) + SumOfSizes([x \in (DOMAIN f) \ {k} |-> f[x]])

\* gather returns; the life events and fraud patterns are prepared and the
\* counts are taken
SetupFinish ==
    /\ setup_pc = "balances"
    /\ AllDone
    /\ setup_stats' = [setup_stats EXCEPT
                          !.customers_created = Len(state_customers),
                          !.accounts_created = SumOfSizes(customer_accounts)]
    /\ setup_pc' = "done"
    /\ UNCHANGED <<setup_cfg, setup_health, state_customers, customer_accounts,
                   setup_tasks, mockVars>>

\* ------------------------------------------------------- MetricsCollector
\* The collector after start(): counters, gauges, time series and histogram
\* buffers, with the collection loop and the recordings of the transaction
\* submission pipeline.  Time is datetime.now() in whole minutes.  Every point
\* carries the number n of its arrival, so that two points of equal time and
\* value stay apart; recorded and samples remember everything that was ever
\* handed to a series or a histogram.
VARIABLES
    metrics,      \* the MetricsCollector: enabled, retention_minutes, counters,
                  \* gauges, time_series, histograms (and arrivals, recorded, samples)
    m_now,        \* datetime.now()
    pipe,         \* _process_single_transaction: where it is, and its transaction
    m_last        \* the collector's last operation and the collector before it

metricsVars == <<metrics, m_now, pipe, m_last>>

ConfusionCounters == {"true_positives", "false_positives", "false_negatives", "true_negatives"}

CounterNames ==
    {"transactions_total", "fraud_transactions_total", "nexum_requests_total",
     "nexum_errors_total", "bastion_requests_total", "bastion_errors_total"}
        \cup ConfusionCounters

\* _initialize_metrics: the series that exist from start() on
InitialSeries ==
    {"transactions_per_second", "fraud_transactions_per_second", "nexum_api_latency_ms",
     "bastion_api_latency_ms", "nexum_success_rate", "bastion_success_rate",
     "average_risk_score", "fraud_detection_rate", "false_positive_rate",
     "memory_usage_mb"}

InitialGauges == {"customers_created", "accounts_created", "simulation_time_multiplier"}

\* deque(maxlen=1000), scaled down: the length a time series or a histogram
\* buffer never exceeds
SeriesCap == 2

Get(f, k, default) == IF k \in DOMAIN f THEN f[k] ELSE default

AppendsWithoutEviction(d, x) == Append(d, x)

\* deque.append on a deque with maxlen: a full deque drops its leftmost item
deque_append(d, x) == IF Len(d) >= SeriesCap THEN Append(Tail(d), x) ELSE Append(d, x)

\* TimeSeries.add_point, on the series c.time_series[name]
add_point(c, name, value, at) ==
    LET point == [timestamp |-> at, value |-> value, n |-> c.arrivals + 1] IN
    [c EXCEPT !.time_series = With(@, name, deque_append(@[name], point)),
              !.recorded = With(@, name, Append(Get(@, name, <<>>), point)),
              !.arrivals = @ + 1]

\* "if name not in self.time_series: self.time_series[name] = TimeSeries(name)"
ensure_series(c, name) ==
    IF name \in DOMAIN c.time_series THEN c
    ELSE [c EXCEPT !.time_series = With(@, name, <<>>)]

record_counter(c, name, at) ==
    IF ~c.enabled THEN c
    ELSE add_point(ensure_series([c EXCEPT !.counters[name] = @ + 1], name \o "_rate"),
                   name \o "_rate", 1, at)

record_gauge(c, name, value, at) ==
    IF ~c.enabled THEN c
    ELSE add_point(ensure_series([c EXCEPT !.gauges = With(@, name, value)], name),
                   name, value, at)

record_histogram(c, name, value, at) ==
    IF ~c.enabled THEN c
    ELSE add_point(
            ensure_series(
                [c EXCEPT !.histograms = With(@, name, deque_append(Get(@, name, <<>>), value)),
                          !.samples = With(@, name, Append(Get(@, name, <<>>), value))],
                name),
            name, value, at)

record_timing(c, name, duration_ms, at) == record_histogram(c, name, duration_ms, at)

record_transaction(c, is_fraud, at) ==
    LET c1 == record_counter(c, "transactions_total", at) IN
    IF is_fraud THEN record_counter(c1, "fraud_transactions_total", at) ELSE c1

record_nexum_request(c, latency_ms, success, at) ==
    LET c1 == record_counter(c, "nexum_requests_total", at)
        c2 == record_timing(c1, "nexum_api_latency_ms", latency_ms, at)
    IN IF ~success THEN record_counter(c2, "nexum_errors_total", at) ELSE c2

\* risk_score is never None where the pipeline calls it
record_bastion_request(c, latency_ms, risk_score, success, at) ==
    LET c1 == record_counter(c, "bastion_requests_total", at)
        c2 == record_timing(c1, "bastion_api_latency_ms", latency_ms, at)
        c3 == record_gauge(c2, "latest_risk_score", risk_score, at)
    IN IF ~success THEN record_counter(c3, "bastion_errors_total", at) ELSE c3

CountsEveryPositiveAsTrue(predicted_fraud, actual_fraud) ==
    IF predicted_fraud THEN "true_positives"
    ELSE IF actual_fraud THEN "false_negatives"
    ELSE "true_negatives"

\* the if/elif chain of record_fraud_decision
ConfusionCounter(predicted_fraud, actual_fraud) ==
    IF predicted_fraud /\ actual_fraud THEN "true_positives"
    ELSE IF predicted_fraud /\ ~actual_fraud THEN "false_positives"
    ELSE IF ~predicted_fraud /\ actual_fraud THEN "false_negatives"
    ELSE "true_negatives"

record_fraud_decision(c, predicted_fraud, actual_fraud, at) ==
    record_counter(c, ConfusionCounter(predicted_fraud, actual_fraud), at)

RECURSIVE DropExpired(_, _)
PopsOnlyTheOldest(points, cutoff) ==
    IF points # <<>> /\ points[1].timestamp < cutoff THEN Tail(points) ELSE points

\* "while ts.data_points and ts.data_points[0].timestamp < cutoff: popleft()"
DropExpired(points, cutoff) ==
    IF points # <<>> /\ points[1].timestamp < cutoff
    THEN DropExpired(Tail(points), cutoff)
    ELSE points

\* _cleanup_old_data
cleanup_old_data(c, at) ==
    LET cutoff == at - c.retention_minutes IN
    [c EXCEPT !.time_series = [name \in DOMAIN @ |-> DropExpired(@[name], cutoff)]]

RECURSIVE SelectPoints(_, _)
SelectPoints(points, cutoff) ==
    IF points = <<>> THEN <<>>
    ELSE IF points[1].timestamp >= cutoff
    THEN <<points[1]>> \o SelectPoints(Tail(points), cutoff)
    ELSE SelectPoints(Tail(points), cutoff)

\* get_time_series_data: the points of the last `minutes` minutes
get_time_series_data(c, metric_name, minutes, at) ==
    IF metric_name \notin DOMAIN c.time_series THEN <<>>
    ELSE SelectPoints(c.time_series[metric_name], at - minutes)

\* what the scorer answers: the action with its risk score in tenths (the
\* mock's thresholds), as a real server may spell it, and the default result
\* of _submit_to_bastion after the connector raised
ScorerResults ==
    {[risk_score |-> 0, action |-> "APPROVE"], [risk_score |-> 6, action |-> "REVIEW"],
     [risk_score |-> 9, action |-> "DECLINE"], [risk_score |-> 9, action |-> "decline"]}

\* str.upper() on the actions above
Upper(action) ==
    IF action \in {"approve", "APPROVE"} THEN "APPROVE"
    ELSE IF action \in {"review", "REVIEW"} THEN "REVIEW"
    ELSE IF action \in {"decline", "DECLINE"} THEN "DECLINE"
    ELSE action

Retentions == {1, 2}

\* MetricsCollector.__init__ and start(): a disabled collector starts nothing
MetricsNew(enabled, retention_minutes) ==
    [enabled |-> enabled, retention_minutes |-> retention_minutes,
     running |-> enabled,
     counters |-> [name \in CounterNames |-> 0],
     gauges |-> IF enabled THEN [name \in InitialGauges |-> 0] ELSE <<>>,
     time_series |-> IF enabled THEN [name \in InitialSeries |-> <<>>] ELSE <<>>,
     histograms |-> <<>>,
     arrivals |-> 0, recorded |-> <<>>, samples |-> <<>>]

PipeIdle == [pc |-> "idle", is_fraud |-> FALSE, since |-> 0, transactions |-> 0]

NoMetricsOp == [op |-> "none", before |-> MetricsNew(FALSE, 1), name |-> "", cutoff |-> 0]

MetricsIdle ==
    /\ metrics = MetricsNew(FALSE, 1)
    /\ m_now = 0
    /\ pipe = PipeIdle
    /\ m_last = NoMetricsOp

MetricsInit ==
    /\ \E enabled \in BOOLEAN, r \in Retentions : metrics = MetricsNew(enabled, r)
    /\ m_now = 0
    /\ pipe = PipeIdle
    /\ m_last = NoMetricsOp

\* a minute passes
MetricsTick ==
    /\ m_now < MaxMetricsNow
    /\ m_now' = m_now + 1
    /\ m_last' = [NoMetricsOp EXCEPT !.op = "tick"]
    /\ UNCHANGED <<metrics, pipe>>

\* the recorders as the engine's loops call them; the value recorded is the
\* number of the recording, so that no two samples are alike
RecordCounter ==
    /\ metrics.arrivals < MaxArrivals
    /\ metrics' = record_counter(metrics, "transactions_total", m_now)
    /\ m_last' = [NoMetricsOp EXCEPT !.op = "record_counter", !.before = metrics,
                                     !.name = "transactions_total_rate"]
    /\ UNCHANGED <<m_now, pipe>>

RecordGauge ==
    /\ metrics.arrivals < MaxArrivals
    /\ metrics' = record_gauge(metrics, "current_tps", metrics.arrivals + 1, m_now)
    /\ m_last' = [NoMetricsOp EXCEPT !.op = "record_gauge", !.before = metrics,
                                     !.name = "current_tps"]
    /\ UNCHANGED <<m_now, pipe>>

RecordTiming ==
    /\ metrics.arrivals < MaxArrivals
    /\ metrics' = record_timing(metrics, "nexum_api_latency_ms", metrics.arrivals + 1, m_now)
    /\ m_last' = [NoMetricsOp EXCEPT !.op = "record_histogram", !.before = metrics,
                                     !.name = "nexum_api_latency_ms"]
    /\ UNCHANGED <<m_now, pipe>>

\* one round of _collection_loop: _collect_system_metrics (psutil may be
\* missing), the aggregations and callbacks, which leave the series alone,
\* and _cleanup_old_data
CollectionCycle ==
    \E psutil \in BOOLEAN :
        LET c1 == IF psutil
                  THEN record_gauge(record_gauge(metrics, "memory_usage_mb",
                                                 metrics.arrivals + 1, m_now),
                                    "cpu_usage_percent", metrics.arrivals + 2, m_now)
                  ELSE metrics
        IN /\ metrics.running
           /\ psutil => metrics.arrivals + 2 <= MaxArrivals
           /\ metrics' = cleanup_old_data(c1, m_now)
           /\ m_last' = [op |-> "cleanup", before |-> c1, name |-> "",
                         cutoff |-> m_now - metrics.retention_minutes]
           /\ UNCHANGED <<m_now, pipe>>

\* the minutes an awaited connector call takes
Elapsed == {e \in 0..1 : m_now + e <= MaxMetricsNow}

\* _process_single_transaction up to its first await: record_transaction.
\* A fraud transaction is stamped metadata["is_fraud"] and passed is_fraud=True.
PipelineStart ==
    \E is_fraud \in BOOLEAN :
        /\ pipe.pc = "idle"
        /\ pipe.transactions < MaxPipelineTxns
        /\ metrics' = record_transaction(metrics, is_fraud, m_now)
        /\ pipe' = [pc |-> "nexum", is_fraud |-> is_fraud, since |-> m_now,
                    transactions |-> pipe.transactions + 1]
        /\ m_last' = [NoMetricsOp EXCEPT !.op = "record_transaction", !.before = metrics]
        /\ UNCHANGED m_now

\* _submit_to_nexum returned: record_nexum_request with the latency measured
PipelineNexumDone ==
    \E success \in BOOLEAN, e \in Elapsed :
        /\ pipe.pc = "nexum"
        /\ m_now' = m_now + e
        /\ metrics' = record_nexum_request(metrics, m_now' - pipe.since, success, m_now')
        /\ pipe' = [pipe EXCEPT !.pc = "bastion", !.since = m_now']
        /\ m_last' = [NoMetricsOp EXCEPT !.op = "record_nexum_request", !.before = metrics]

\* _submit_to_bastion returned: record_bastion_request, then the decision is
\* classified and recorded.  (Publishing and the runtime counters that follow
\* are the steps BastionDone .. KafkaDecDone of the engine's loops.)
PipelineScored ==
    \E result \in ScorerResults, e \in Elapsed :
        LET decision == Upper(result.action)
            predicted_fraud == decision \in {"REVIEW", "DECLINE"}
            actual_fraud == pipe.is_fraud
            c1 == record_bastion_request(metrics, m_now' - pipe.since, result.risk_score,
                                         TRUE, m_now')
        IN /\ pipe.pc = "bastion"
           /\ m_now' = m_now + e
           /\ metrics' = record_fraud_decision(c1, predicted_fraud, actual_fraud, m_now')
           /\ pipe' = [pipe EXCEPT !.pc = "idle"]
           /\ m_last' = [op |-> "record_fraud_decision", before |-> metrics,
                         name |-> decision, cutoff |-> 0]

\* ------------------------------------------------------- SimulationRunner
\* The command-line runner (run.py): SimulationRunner.run with the engine as
\* its context manager, the optional dashboard, the simulation task, the
\* signal handlers and _cleanup.  The simulation task is run_scenario: setup,
\* execute (which polls _stop_requested once per tick) and the report.
VARIABLES
    run_pc,           \* run(): "init", "dashboard" (in _start_dashboard), "start",
                      \* "gather", "aexit" (leaving the async with), "cleanup", "done"
    run_dashboard,    \* config.dashboard.enabled
    sim_task,         \* the simulation task: phase ("none", "setup", "execute",
                      \* "report", "finished", "failed") and the ticks execute has left
    shutdown_event,   \* self._shutdown_event
    run_stop,         \* engine._stop_requested
    handlers,         \* the signal handlers are installed
    ws_manager,       \* the dashboard server's WebSocket manager: "none" (no server),
                      \* "created", "started" (broadcasting), "stopped"
    engine_open,      \* the engine's connectors and collector: "new", "open", "closed"
    run_raised        \* run() re-raises after its teardown

runVars == <<run_pc, run_dashboard, sim_task, shutdown_event, run_stop, handlers,
             ws_manager, engine_open, run_raised>>

NoSimTask == [phase |-> "none", left |-> 0]

RunnerIdle ==
    /\ run_pc = "init"
    /\ run_dashboard = FALSE
    /\ sim_task = NoSimTask
    /\ shutdown_event = FALSE
    /\ run_stop = FALSE
    /\ handlers = FALSE
    /\ ws_manager = "none"
    /\ engine_open = "new"
    /\ run_raised = FALSE

\* SimulationRunner.__init__
RunnerInit ==
    /\ run_pc = "init"
    /\ run_dashboard \in BOOLEAN
    /\ sim_task = NoSimTask
    /\ shutdown_event = FALSE
    /\ run_stop = FALSE
    /\ handlers = FALSE
    /\ ws_manager = "none"
    /\ engine_open = "new"
    /\ run_raised = FALSE

\* "async with SimulationEngine(self.config) as engine": __aenter__ opens the
\* connectors and starts the collector, or raises
RunEnter ==
    \E raised \in BOOLEAN :
        /\ run_pc = "init"
        /\ IF raised
           THEN /\ run_pc' = "cleanup"
                /\ run_raised' = TRUE
                /\ UNCHANGED engine_open
           ELSE /\ run_pc' = IF run_dashboard THEN "dashboard" ELSE "start"
                /\ engine_open' = "open"
                /\ UNCHANGED run_raised
        /\ UNCHANGED <<run_dashboard, sim_task, shutdown_event, run_stop, handlers,
                       ws_manager>>

\* _start_dashboard: the dashboard server is created and its WebSocket
\* manager started; whatever fails on the way is logged and swallowed
RunStartDashboard ==
    \E outcome \in {"none", "created", "started"} :
        /\ run_pc = "dashboard"
        /\ ws_manager' = outcome
        /\ run_pc' = "start"
        /\ UNCHANGED <<run_dashboard, sim_task, shutdown_event, run_stop, handlers,
                       engine_open, run_raised>>

\* _setup_signal_handlers, the simulation task is created, and run() waits in
\* asyncio.gather(simulation_task, shutdown_event.wait(), return_exceptions=True)
RunStartSimulation ==
    \E ticks \in 1..MaxRunTicks :
        /\ run_pc = "start"
        /\ handlers' = TRUE
        /\ sim_task' = [phase |-> "setup", left |-> ticks]
        /\ run_pc' = "gather"
        /\ UNCHANGED <<run_dashboard, shutdown_event, run_stop, ws_manager, engine_open,
                       run_raised>>

\* SIGINT or SIGTERM arrives: signal_handler sets the event and calls
\* engine.stop()
RunSignal ==
    /\ handlers
    /\ run_pc # "done"
    /\ shutdown_event' = TRUE
    /\ run_stop' = TRUE
    /\ UNCHANGED <<run_pc, run_dashboard, sim_task, handlers, ws_manager, engine_open,
                   run_raised>>

\* run_scenario: setup() returns, or raises and ends the task
SimSetupDone ==
    \E raised \in BOOLEAN :
        /\ sim_task.phase = "setup"
        /\ sim_task' = [sim_task EXCEPT !.phase = IF raised THEN "failed" ELSE "execute"]
        /\ UNCHANGED <<run_pc, run_dashboard, shutdown_event, run_stop, handlers,
                       ws_manager, engine_open, run_raised>>

\* execute(): "while self.state.is_running and not self._stop_requested",
\* until the duration is over
SimExecutePoll ==
    /\ sim_task.phase = "execute"
    /\ sim_task' = IF run_stop \/ sim_task.left = 0
                   THEN [sim_task EXCEPT !.phase = "report"]
                   ELSE [sim_task EXCEPT !.left = @ - 1]
    /\ UNCHANGED <<run_pc, run_dashboard, shutdown_event, run_stop, handlers,
                   ws_manager, engine_open, run_raised>>

\* generate_report() returns and run_scenario ends
SimReportDone ==
    /\ sim_task.phase = "report"
    /\ sim_task' = [sim_task EXCEPT !.phase = "finished"]
    /\ UNCHANGED <<run_pc, run_dashboard, shutdown_event, run_stop, handlers,
                   ws_manager, engine_open, run_raised>>

\* asyncio.gather returns when every awaitable it was given is done: the
\* simulation task has ended and the shutdown event is set
GatherDone ==
    /\ sim_task.phase \in {"finished", "failed"}
    /\ shutdown_event

\* the gather of run() returns and the async with block is left
RunGatherReturns ==
    /\ run_pc = "gather"
    /\ GatherDone
    /\ run_pc' = "aexit"
    /\ UNCHANGED <<run_dashboard, sim_task, shutdown_event, run_stop, handlers,
                   ws_manager, engine_open, run_raised>>

\* SimulationEngine.__aexit__: background tasks cancelled and awaited, the
\* collector stopped, the connectors closed
RunEngineExit ==
    /\ run_pc = "aexit"
    /\ engine_open' = "closed"
    /\ run_pc' = "cleanup"
    /\ UNCHANGED <<run_dashboard, sim_task, shutdown_event, run_stop, handlers,
                   ws_manager, run_raised>>

\* the finally of run(): _cleanup cancels the dashboard task and, if a
\* dashboard server was created, stops its WebSocket manager
RunCleanup ==
    /\ run_pc = "cleanup"
    /\ ws_manager' = IF ws_manager \in {"created", "started"} THEN "stopped" ELSE ws_manager
    /\ run_pc' = "done"
    /\ UNCHANGED <<run_dashboard, sim_task, shutdown_event, run_stop, handlers,
                   engine_open, run_raised>>

\* --------------------------------------- KafkaConnector: topic consumers
\* start_consumer and stop_consumer, called by any number of tasks.  Each call
\* runs up to its await in one step and finishes in another; the mock has no
\* await and serves a call in one step.
VARIABLES
    kc_kind,          \* "real" (KafkaConnector) or "mock" (MockKafkaConnector)
    consumers,        \* self.consumers (mock: consumer_handlers): topic -> consumer
    consumer_tasks,   \* self.consumer_tasks: topic -> the consumer its task reads
    kc_objects,       \* every consumer created: its topic and its state, "starting",
                      \* "started", "failed" or "stopped"
    kc_calls          \* the calls made: op, topic, pc ("await", "done"), the
                      \* consumer awaited, and what the call returned

kafkaVars == <<kc_kind, consumers, consumer_tasks, kc_objects, kc_calls>>

Topics == {"transactions", "fraud_decisions"}

KafkaInit ==
    /\ kc_kind \in {"real", "mock"}
    /\ consumers = <<>>
    /\ consumer_tasks = <<>>
    /\ kc_objects = <<>>
    /\ kc_calls = <<>>

KafkaIdle ==
    /\ kc_kind = "mock"
    /\ consumers = <<>>
    /\ consumer_tasks = <<>>
    /\ kc_objects = <<>>
    /\ kc_calls = <<>>

\* the consumer a new call creates is numbered after the call
NewId == Len(kc_calls) + 1

\* "if topic in self.consumers: ... return False"
AlreadyRunning(topic) == topic \in DOMAIN consumers

\* KafkaConnector.start_consumer up to "await consumer.start()"
StartConsumerBegin(topic) ==
    /\ kc_kind = "real"
    /\ Len(kc_calls) < MaxKafkaCalls
    /\ IF AlreadyRunning(topic)
       THEN /\ kc_calls' = Append(kc_calls, [op |-> "start", topic |-> topic, pc |-> "done",
                                             consumer |-> 0, result |-> "False"])
            /\ UNCHANGED kc_objects
       ELSE /\ kc_calls' = Append(kc_calls, [op |-> "start", topic |-> topic, pc |-> "await",
                                             consumer |-> NewId, result |-> "none"])
            /\ kc_objects' = With(kc_objects, NewId, [topic |-> topic, state |-> "starting"])
    /\ UNCHANGED <<kc_kind, consumers, consumer_tasks>>

\* consumer.start() returns and the consumer and its task are registered, or
\* it raises and the call returns False
StartConsumerEnd(k) ==
    \E raised \in BOOLEAN :
        /\ kc_calls[k].op = "start"
        /\ kc_calls[k].pc = "await"
        /\ IF raised
           THEN /\ kc_objects' = [kc_objects EXCEPT ![kc_calls[k].consumer].state = "failed"]
                /\ kc_calls' = [kc_calls EXCEPT ![k].pc = "done", ![k].result = "False"]
                /\ UNCHANGED <<consumers, consumer_tasks>>
           ELSE /\ kc_objects' = [kc_objects EXCEPT ![kc_calls[k].consumer].state = "started"]
                /\ consumers' = With(consumers, kc_calls[k].topic, kc_calls[k].consumer)
                /\ consumer_tasks' = With(consumer_tasks, kc_calls[k].topic, kc_calls[k].consumer)
                /\ kc_calls' = [kc_calls EXCEPT ![k].pc = "done", ![k].result = "True"]
        /\ UNCHANGED kc_kind

\* KafkaConnector.stop_consumer up to "await self.consumers[topic].stop()":
\* the task is cancelled and forgotten; without a consumer the call is over
StopConsumerBegin(topic) ==
    /\ kc_kind = "real"
    /\ Len(kc_calls) < MaxKafkaCalls
    /\ consumer_tasks' = Without(consumer_tasks, topic)
    /\ kc_calls' = Append(kc_calls,
                          IF topic \in DOMAIN consumers
                          THEN [op |-> "stop", topic |-> topic, pc |-> "await",
                                consumer |-> consumers[topic], result |-> "none"]
                          ELSE [op |-> "stop", topic |-> topic, pc |-> "done",
                                consumer |-> 0, result |-> "None"])
    /\ UNCHANGED <<kc_kind, consumers, kc_objects>>

\* the consumer's stop() returns; "del self.consumers[topic]" removes what is
\* registered for the topic by now, or raises KeyError
StopConsumerEnd(k) ==
    /\ kc_calls[k].op = "stop"
    /\ kc_calls[k].pc = "await"
    /\ kc_objects' = [kc_objects EXCEPT ![kc_calls[k].consumer].state = "stopped"]
    /\ consumers' = Without(consumers, kc_calls[k].topic)
    /\ kc_calls' = [kc_calls EXCEPT ![k].pc = "done",
                                    ![k].result = IF kc_calls[k].topic \in DOMAIN consumers
                                                  THEN "None" ELSE "KeyError"]
    /\ UNCHANGED <<kc_kind, consumer_tasks>>

\* MockKafkaConnector.start_consumer: the handler takes the topic's place
MockStartConsumer(topic) ==
    /\ kc_kind = "mock"
    /\ Len(kc_calls) < MaxKafkaCalls
    /\ kc_calls' = Append(kc_calls, [op |-> "start", topic |-> topic, pc |-> "done",
                                     consumer |-> NewId, result |-> "True"])
    /\ kc_objects' =
          With(IF topic \in DOMAIN consumers
               THEN [kc_objects EXCEPT ![consumers[topic]].state = "stopped"]
               ELSE kc_objects,
               NewId, [topic |-> topic, state |-> "started"])
    /\ consumers' = With(consumers, topic, NewId)
    /\ UNCHANGED <<kc_kind, consumer_tasks>>

\* MockKafkaConnector.stop_consumer
MockStopConsumer(topic) ==
    /\ kc_kind = "mock"
    /\ Len(kc_calls) < MaxKafkaCalls
    /\ kc_calls' = Append(kc_calls, [op |-> "stop", topic |-> topic, pc |-> "done",
                                     consumer |-> 0, result |-> "None"])
    /\ kc_objects' = IF topic \in DOMAIN consumers
                     THEN [kc_objects EXCEPT ![consumers[topic]].state = "stopped"]
                     ELSE kc_objects
    /\ consumers' = Without(consumers, topic)
    /\ UNCHANGED <<kc_kind, consumer_tasks>>

\* ------------------------------------------- KafkaConnector: publishing
\* publish_transaction and publish_fraud_decision as _process_single_transaction
\* awaits them, one call at a time.  The engine passes transaction.__dict__
\* (it holds a datetime and enum members: not plain JSON) and the scorer's
\* result (plain JSON).
VARIABLES
    kp_kind,          \* "real" (KafkaConnector) or "mock" (MockKafkaConnector)
    kp_handlers,      \* mock: the topics of self.consumer_handlers
    kp_stats,         \* self.stats
    kp_store,         \* mock: len(self.message_store[topic])
    kp_call,          \* the call in hand: pc ("idle", "send"), topic, plain
    kp_last           \* the last call finished: its topic, whether a step of it
                      \* failed, how it ended ("True", "False", "raised") and the
                      \* statistics before it

pubVars == <<kp_kind, kp_handlers, kp_stats, kp_store, kp_call, kp_last>>

NoStats == [messages_produced |-> 0, messages_consumed |-> 0, producer_errors |-> 0,
            consumer_errors |-> 0]

NoPublish == [pc |-> "idle", topic |-> "", plain |-> TRUE]

NoPublished == [topic |-> "", failure |-> FALSE, outcome |-> "none", before |-> NoStats]

PubInit ==
    /\ kp_kind \in {"real", "mock"}
    /\ kp_handlers \in IF kp_kind = "mock" THEN SUBSET Topics ELSE {{}}
    /\ kp_stats = NoStats
    /\ kp_store = [t \in Topics |-> 0]
    /\ kp_call = NoPublish
    /\ kp_last = NoPublished

PubIdle ==
    /\ kp_kind = "mock"
    /\ kp_handlers = {}
    /\ kp_stats = NoStats
    /\ kp_store = [t \in Topics |-> 0]
    /\ kp_call = NoPublish
    /\ kp_last = NoPublished

Published == kp_stats.messages_produced + kp_stats.producer_errors

\* json.dumps(message) with no default= raises TypeError on a value that is
\* not of a JSON type; _serialize_json passes default=str and does not
JsonDumpsRaises(plain, default_str) == ~plain /\ ~default_str

\* KafkaConnector.publish_*: up to "await self.producer.send_and_wait(...)"
PublishBegin(topic, plain) ==
    /\ kp_kind = "real"
    /\ kp_call.pc = "idle"
    /\ Published < MaxPublishes
    /\ kp_call' = [pc |-> "send", topic |-> topic, plain |-> plain]
    /\ UNCHANGED <<kp_kind, kp_handlers, kp_stats, kp_store, kp_last>>

\* send_and_wait returns or raises (no producer, broker out of reach, the
\* serializer); after it the statistics, where the size of the message is
\* taken with a plain json.dumps.  All of it is inside the try.
PublishEnd ==
    \E send_raises \in BOOLEAN :
        LET sent == [kp_stats EXCEPT !.messages_produced = @ + 1]
            raised == send_raises \/ JsonDumpsRaises(kp_call.plain, TRUE)
            dumps_raises == JsonDumpsRaises(kp_call.plain, FALSE)
        IN /\ kp_kind = "real"
           /\ kp_call.pc = "send"
           /\ IF raised
              THEN /\ kp_stats' = [kp_stats EXCEPT !.producer_errors = @ + 1]
                   /\ kp_last' = [topic |-> kp_call.topic, failure |-> TRUE,
                                  outcome |-> "False", before |-> kp_stats]
              ELSE IF dumps_raises
              THEN /\ kp_stats' = [sent EXCEPT !.producer_errors = @ + 1]
                   /\ kp_last' = [topic |-> kp_call.topic, failure |-> TRUE,
                                  outcome |-> "False", before |-> kp_stats]
              ELSE /\ kp_stats' = sent
                   /\ kp_last' = [topic |-> kp_call.topic, failure |-> FALSE,
                                  outcome |-> "True", before |-> kp_stats]
           /\ kp_call' = NoPublish
           /\ UNCHANGED <<kp_kind, kp_handlers, kp_store>>

\* MockKafkaConnector.publish_transaction / publish_fraud_decision: the message
\* is stored and counted, its size is taken with a plain json.dumps outside
\* any try, and a registered handler is run, its failure counted as a
\* consumer error
MockPublish(topic, plain) ==
    \E handler_raises \in BOOLEAN :
        LET sent == [kp_stats EXCEPT !.messages_produced = @ + 1] IN
        /\ kp_kind = "mock"
        /\ kp_call.pc = "idle"
        /\ Published < MaxPublishes
        /\ kp_store' = [kp_store EXCEPT ![topic] = @ + 1]
        /\ IF JsonDumpsRaises(plain, FALSE)
           THEN /\ ~handler_raises
                /\ kp_stats' = sent
                /\ kp_last' = [topic |-> topic, failure |-> TRUE, outcome |-> "raised",
                               before |-> kp_stats]
           ELSE /\ handler_raises => topic \in kp_handlers
                /\ kp_stats' =
                      IF topic \notin kp_handlers THEN sent
                      ELSE IF handler_raises THEN [sent EXCEPT !.consumer_errors = @ + 1]
                      ELSE [sent EXCEPT !.messages_consumed = @ + 1]
                /\ kp_last' = [topic |-> topic, failure |-> FALSE, outcome |-> "True",
                               before |-> kp_stats]
        /\ UNCHANGED <<kp_kind, kp_handlers, kp_call>>

\* --------------------------------------- DashboardServer: control routes
\* The POST handlers of /api/control/* and /api/start, one request at a time.
\* A handler runs to its await of broadcast_system_event in one step (the
\* message handed to the WebSocket manager is kept in dash_events; its
\* delivery is WebSocketManager.broadcast above) and answers in another.
VARIABLES
    dash_engine,      \* self.simulation_engine is not None
    dash_stats,       \* self.stats: total_requests, errors
    dash_req,         \* the request in hand: pc ("idle", "broadcast") and op
    dash_events,      \* the events passed to broadcast_system_event, in order
    dash_last         \* the last request: op, multiplier asked for, HTTP status
                      \* (0 while the handler runs) and len(dash_events) before

dashVars == <<dash_engine, dash_stats, dash_req, dash_events, dash_last>>

ControlOps == {"pause", "resume", "stop"}

\* the "multiplier" of a speed request's body: 0 stands for a missing, zero,
\* negative or non-numeric value, MaxSpeed + 1 for a number above the
\* configuration's limit
Multipliers == 0..(MaxSpeed + 1)

NoRequest == [op |-> "none", multiplier |-> 0, status |-> 0, events |-> 0]

DashInit ==
    /\ dash_engine \in BOOLEAN
    /\ dash_stats = [total_requests |-> 0, errors |-> 0]
    /\ dash_req = [pc |-> "idle", op |-> "none"]
    /\ dash_events = <<>>
    /\ dash_last = NoRequest

DashIdle ==
    /\ dash_engine = FALSE
    /\ dash_stats = [total_requests |-> 0, errors |-> 0]
    /\ dash_req = [pc |-> "idle", op |-> "none"]
    /\ dash_events = <<>>
    /\ dash_last = NoRequest

\* the first argument of broadcast_system_event in each handler
EventOf(op) ==
    CASE op = "pause" -> "simulation_paused"
      [] op = "resume" -> "simulation_resumed"
      [] op = "stop" -> "simulation_stopped"
      [] op = "speed" -> "speed_changed"
      [] op = "start" -> "simulation_started"

\* a request arrives: total_requests is counted
DashArrives ==
    /\ dash_req.pc = "idle"
    /\ dash_stats.total_requests < MaxDashRequests

\* "if not self.simulation_engine: raise HTTPException(status_code=503, ...)"
DashUnavailable(op, m) ==
    /\ dash_stats' = [dash_stats EXCEPT !.total_requests = @ + 1]
    /\ dash_last' = [op |-> op, multiplier |-> m, status |-> 503,
                     events |-> Len(dash_events)]
    /\ UNCHANGED <<dash_engine, dash_req, dash_events, clockVars, engVars>>

\* the engine's method has returned: the event is handed to the manager
DashBroadcasts(op, m) ==
    /\ dash_stats' = [dash_stats EXCEPT !.total_requests = @ + 1]
    /\ dash_req' = [pc |-> "broadcast", op |-> op]
    /\ dash_events' = Append(dash_events, EventOf(op))
    /\ dash_last' = [op |-> op, multiplier |-> m, status |-> 0,
                     events |-> Len(dash_events)]
    /\ UNCHANGED dash_engine

\* pause_simulation, resume_simulation, stop_simulation
DashControl(op) ==
    /\ DashArrives
    /\ IF ~dash_engine
       THEN DashUnavailable(op, 0)
       ELSE /\ CASE op = "pause" -> EnginePause
                 [] op = "resume" -> EngineResume
                 [] op = "stop" -> EngineStop
            /\ DashBroadcasts(op, 0)

\* "if not multiplier or not isinstance(multiplier, (int, float)) or multiplier <= 0"
InvalidMultiplier(m) == m <= 0

\* set_simulation_speed
DashSetSpeed(m) ==
    /\ DashArrives
    /\ IF ~dash_engine
       THEN DashUnavailable("speed", m)
       ELSE IF InvalidMultiplier(m)
       THEN /\ dash_stats' = [dash_stats EXCEPT !.total_requests = @ + 1]
            /\ dash_last' = [op |-> "speed", multiplier |-> m, status |-> 400,
                             events |-> Len(dash_events)]
            /\ UNCHANGED <<dash_engine, dash_req, dash_events, clockVars, engVars>>
       ELSE /\ EngineSetSpeedTo(m)
            /\ DashBroadcasts("speed", m)

\* start_simulation: SimulationEngine has no method start, the AttributeError
\* is caught by the handler's "except Exception" and answered with a 500
DashStart ==
    /\ DashArrives
    /\ IF ~dash_engine
       THEN DashUnavailable("start", 0)
       ELSE /\ dash_stats' = [total_requests |-> dash_stats.total_requests + 1,
                              errors |-> dash_stats.errors + 1]
            /\ dash_last' = [op |-> "start", multiplier |-> 0, status |-> 500,
                             events |-> Len(dash_events)]
            /\ UNCHANGED <<dash_engine, dash_req, dash_events, clockVars, engVars>>

\* broadcast_system_event returns: {"status": "ok", ...}
DashResponds ==
    /\ dash_req.pc = "broadcast"
    /\ dash_req' = [pc |-> "idle", op |-> "none"]
    /\ dash_last' = [dash_last EXCEPT !.status = 200]
    /\ UNCHANGED <<dash_engine, dash_stats, dash_events, clockVars, engVars>>

\* ------------------------------------------------------- FraudGenerator
\* generate_fraud_attack and create_fraud_network, called on a list of n
\* customers who all hold accounts, and the generation loop of a structuring
\* profile.  Amounts are counted in units of which IndividualMax make 9999.
VARIABLES
    fr_in,            \* the call: kind, number of customers passed, and the
                      \* keyword arguments hops and threshold (0: not given)
    fr_pc,            \* "called", "network" (in the loop of _create_mule_network),
                      \* "built", "raised", "loop" (in the generation loop), "generated"
    fr_profiles,      \* the profiles constructed so far
    fr_mules,         \* _create_mule_network: mule_count
    fr_txns,          \* _generate_structuring_transactions: the amounts generated
    fr_remaining      \* ... and remaining_amount

fraudVars == <<fr_in, fr_pc, fr_profiles, fr_mules, fr_txns, fr_remaining>>

\* the fraud types with a generator of their own that picks one victim, and
\* "generic" for every other type
VictimTypes == {"card_testing", "velocity_attack", "large_amount", "account_takeover",
                "unusual_location", "generic"}
AttackTypes == VictimTypes \cup {"layering", "structuring"}
NetworkTypes == {"mule_network", "synthetic_identity_ring", "generic_network"}

Min(a, b) == IF a <= b THEN a ELSE b

\* math.ceil(a / b) for a >= 0, b > 0
Ceil(a, b) == (a + b - 1) \div b

\* random.randint(a, b) raises ValueError on an empty range
RandintRaises(a, b) == a > b

\* "individual_max = ... 9999", and random.uniform(individual_max * 0.8, individual_max)
IndividualMax == 5
UniformAmounts == ((IndividualMax * 8) \div 10)..IndividualMax

\* kwargs.get("threshold", random.uniform(10000, 50000))
TargetAmounts(threshold) ==
    IF threshold # 0 THEN {threshold}
    ELSE (IndividualMax + 1)..(5 * IndividualMax + 1)

NewProfile(type, customers) ==
    [fraud_type |-> type, customers |-> customers, hops |-> 0, target_amount |-> 0,
     transaction_count |-> 0]

\* _generate_layering_attack.  kwargs.get("hops", random.randint(3, num_customers))
\* evaluates its default whether or not hops is given.
LayeringCustomers(n, hops) == Min(IF hops # 0 THEN hops ELSE 5, n)

LayeringRaises(n, hops) == RandintRaises(3, LayeringCustomers(n, hops))

LayeringProfiles(n, hops) ==
    {[NewProfile("layering", LayeringCustomers(n, hops)) EXCEPT !.hops = h] :
        h \in IF hops # 0 THEN {hops} ELSE 3..LayeringCustomers(n, hops)}

\* _generate_structuring_attack: one customer, or min(randint(2, 5), n) of them
StructuringProfiles(n, threshold) ==
    {[NewProfile("structuring", c) EXCEPT !.target_amount = t,
                                          !.transaction_count = Ceil(t, IndividualMax)] :
        c \in {1} \cup {Min(k, n) : k \in 2..5}, t \in TargetAmounts(threshold)}

FraudInputs ==
    {[kind |-> k, n |-> n, hops |-> 0, threshold |-> 0] :
        k \in VictimTypes \cup NetworkTypes, n \in 1..MaxTargets}
    \cup {[kind |-> "layering", n |-> n, hops |-> h, threshold |-> 0] :
        n \in 1..MaxTargets, h \in {0} \cup 3..5}
    \cup {[kind |-> "structuring", n |-> 1, hops |-> 0, threshold |-> t] :
        t \in 0..MaxTarget}

FraudInit ==
    /\ fr_in \in FraudInputs
    /\ fr_pc = "called"
    /\ fr_profiles = <<>>
    /\ fr_mules = 0
    /\ fr_txns = <<>>
    /\ fr_remaining = 0

FraudIdle ==
    /\ fr_in = [kind |-> "generic", n |-> 1, hops |-> 0, threshold |-> 0]
    /\ fr_pc = "called"
    /\ fr_profiles = <<>>
    /\ fr_mules = 0
    /\ fr_txns = <<>>
    /\ fr_remaining = 0

\* generate_fraud_attack
FraudAttack ==
    /\ fr_pc = "called"
    /\ fr_in.kind \in AttackTypes
    /\ IF fr_in.kind = "layering" /\ LayeringRaises(fr_in.n, fr_in.hops)
       THEN /\ fr_pc' = "raised"
            /\ UNCHANGED fr_profiles
       ELSE /\ fr_pc' = "built"
            /\ \E p \in CASE fr_in.kind = "layering" -> LayeringProfiles(fr_in.n, fr_in.hops)
                          [] fr_in.kind = "structuring" ->
                                StructuringProfiles(fr_in.n, fr_in.threshold)
                          [] OTHER -> {NewProfile(fr_in.kind, 1)} :
                  fr_profiles' = <<p>>
    /\ UNCHANGED <<fr_in, fr_mules, fr_txns, fr_remaining>>

\* _create_synthetic_identity_ring and _create_generic_network: one profile
\* for each of min(8, n) (min(6, n)) customers
FraudRing ==
    /\ fr_pc = "called"
    /\ fr_in.kind \in {"synthetic_identity_ring", "generic_network"}
    /\ fr_pc' = "built"
    /\ fr_profiles' =
          IF fr_in.kind = "synthetic_identity_ring"
          THEN [i \in 1..Min(8, fr_in.n) |-> NewProfile("synthetic_identity", 1)]
          ELSE [i \in 1..Min(6, fr_in.n) |-> NewProfile("generic", 1)]
    /\ UNCHANGED <<fr_in, fr_mules, fr_txns, fr_remaining>>

\* _create_mule_network up to its loop: "random.randint(5, min(15, len(customers)))"
MuleNetworkBegin ==
    /\ fr_pc = "called"
    /\ fr_in.kind = "mule_network"
    /\ IF RandintRaises(5, Min(15, fr_in.n))
       THEN /\ fr_pc' = "raised"
            /\ UNCHANGED fr_mules
       ELSE /\ fr_pc' = "network"
            /\ fr_mules' \in 5..Min(15, fr_in.n)
    /\ UNCHANGED <<fr_in, fr_profiles, fr_txns, fr_remaining>>

\* one pass of "for i in range(mule_count - 1)": a layering profile over
\* mule_customers[i:i+3] with hops=random.randint(3, 5); after the last pass
\* the network is returned
MuleNetworkLayer ==
    LET i == Len(fr_profiles)
        slice == Min(3, fr_mules - i)
    IN /\ fr_pc = "network"
       /\ IF i >= fr_mules - 1
          THEN /\ fr_pc' = "built"
               /\ UNCHANGED fr_profiles
          ELSE \E hops \in 3..5 :
                  IF LayeringRaises(slice, hops)
                  THEN /\ fr_pc' = "raised"
                       /\ UNCHANGED fr_profiles
                  ELSE /\ fr_pc' = "network"
                       /\ \E p \in LayeringProfiles(slice, hops) :
                             fr_profiles' = Append(fr_profiles, p)
       /\ UNCHANGED <<fr_in, fr_mules, fr_txns, fr_remaining>>

\* _generate_structuring_transactions on the profile built: the lines before
\* the loop
StructuringBegin ==
    /\ fr_pc = "built"
    /\ fr_in.kind = "structuring"
    /\ fr_pc' = "loop"
    /\ fr_remaining' = fr_profiles[1].target_amount
    /\ fr_txns' = <<>>
    /\ UNCHANGED <<fr_in, fr_profiles, fr_mules>>

\* "while remaining_amount > 0 and sequence < metadata["transaction_count"]":
\* one pass, or the return
StructuringStep ==
    /\ fr_pc = "loop"
    /\ IF fr_remaining > 0 /\ Len(fr_txns) < fr_profiles[1].transaction_count
       THEN \E u \in UniformAmounts :
               LET amount == Min(fr_remaining, u) IN
               /\ fr_remaining' = fr_remaining - amount
               /\ fr_txns' = Append(fr_txns, amount)
               /\ UNCHANGED fr_pc
       ELSE /\ fr_pc' = "generated"
            /\ UNCHANGED <<fr_txns, fr_remaining>>
    /\ UNCHANGED <<fr_in, fr_profiles, fr_mules>>

\* ------------------------------ SimulationEngine._fraud_detection_loop
\* The loop on one structuring profile that _setup_fraud_patterns registered
\* (generate_fraud_attack without a threshold, add_fraud_profile).  Every
\* iteration asks get_active_fraud_profiles for the profiles whose interval
\* holds the current simulated time, calls generate_fraud_transactions on
\* each and submits what it returns, then sleeps 30 simulated seconds.  A
\* structuring profile lasts at least 60 minutes; the iterations modelled
\* are the first MaxFraudTicks inside that interval.
VARIABLES
    fl_tick,        \* iterations of the loop made inside the profile's interval
    fl_batches,     \* batches of the profile handed to _process_fraud_transactions
    fl_submitted    \* the sum of the deposits submitted for the profile

loopTickVars == <<fl_tick, fl_batches, fl_submitted>>

FraudLoopIdle ==
    /\ fl_tick = 0
    /\ fl_batches = 0
    /\ fl_submitted = 0

FraudLoopInit ==
    /\ FraudInit
    /\ fr_in.kind = "structuring"
    /\ fr_in.threshold = 0

RECURSIVE SumOf(_)
SumOf(seq) == IF seq = <<>> THEN 0 ELSE seq[1] + SumOf(Tail(seq))

\* "if fraud_transactions: await self._process_fraud_transactions(...)", then
\* the sleep; the next iteration finds the profile active again
FraudLoopSubmit ==
    /\ fr_pc = "generated"
    /\ fl_tick < MaxFraudTicks
    /\ fl_tick' = fl_tick + 1
    /\ fl_batches' = IF fr_txns # <<>> THEN fl_batches + 1 ELSE fl_batches
    /\ fl_submitted' = fl_submitted + SumOf(fr_txns)
    /\ fr_pc' = IF fl_tick' < MaxFraudTicks THEN "built" ELSE "slept"
    /\ UNCHANGED <<fr_in, fr_profiles, fr_mules, fr_txns, fr_remaining>>

\* --------------------------------------------------- LifeEventGenerator
\* apply_event_effects as _transaction_generation_loop calls it for a stored
\* customer and the life events active at the current simulated time.
\* Frequencies and multipliers are exact fractions n/d, risk adjustments are
\* counted in tenths.
VARIABLES
    ev_now,           \* current_sim_time, in days
    ev_customer,      \* the profile kept in self.state.customers
    ev_original,      \* that profile as it was generated
    ev_events,        \* self.state.active_life_events
    ev_active,        \* the events passed to the last call
    ev_view           \* modified_customer of the loop's last pass

eventVars == <<ev_now, ev_customer, ev_original, ev_events, ev_active, ev_view>>

Frac(n, d) == [n |-> n, d |-> d]
FracMul(a, b) == [n |-> a.n * b.n, d |-> a.d * b.d]
FracEq(a, b) == a.n * b.d = b.n * a.d

\* transaction_frequency_multiplier of the events generated: 1.5, 2.0, 0.8
EventMultipliers == {Frac(3, 2), Frac(2, 1), Frac(4, 5)}
\* risk_score_adjustment: 0.1, 0.2
RiskAdjustments == {1, 2}

LifeEvents ==
    [event_date : 0..1, duration_days : {1},
     transaction_frequency_multiplier : EventMultipliers,
     risk_score_adjustment : RiskAdjustments]

\* LifeEvent.is_active
is_active(event, current_time) ==
    event.event_date <= current_time /\ current_time <= event.event_date + event.duration_days

\* a generated CustomerProfile; has_effects: the object carries the
\* attributes active_events and event_risk_adjustment
NewCustomer(frequency) ==
    [transaction_frequency |-> Frac(frequency, 1), has_effects |-> FALSE,
     active_events |-> <<>>, event_risk_adjustment |-> 0]

RECURSIVE SelectActive(_, _)
\* "[event for event in self.state.active_life_events if ... event.is_active(...)]"
SelectActive(events, current_time) ==
    IF events = <<>> THEN <<>>
    ELSE LET rest == SelectActive(Tail(events), current_time) IN
         IF is_active(Head(events), current_time) THEN <<Head(events)>> \o rest ELSE rest

RECURSIVE TotalEffects(_)
LastEventWins(events) ==
    IF events = <<>>
    THEN [multiplier |-> Frac(1, 1), risk |-> 0]
    ELSE [multiplier |-> events[Len(events)].transaction_frequency_multiplier,
          risk |-> events[Len(events)].risk_score_adjustment]

\* the loop "for event in active_events": total_transaction_multiplier and
\* total_risk_adjustment
TotalEffects(events) ==
    IF events = <<>>
    THEN [multiplier |-> Frac(1, 1), risk |-> 0]
    ELSE LET before == TotalEffects(SubSeq(events, 1, Len(events) - 1))
             event == events[Len(events)]
         IN [multiplier |-> FracMul(before.multiplier, event.transaction_frequency_multiplier),
             risk |-> before.risk + event.risk_score_adjustment]

ApplyEffectsInPlace(customer, active_events) ==
    IF active_events = <<>>
    THEN [stored |-> customer, returned |-> customer]
    ELSE LET total == TotalEffects(active_events)
             modified == [customer EXCEPT
                             !.transaction_frequency = FracMul(@, total.multiplier)]
         IN [stored |-> modified, returned |-> modified]

\* apply_event_effects: what the object passed holds afterwards, and the
\* object returned
apply_event_effects(customer, active_events) ==
    IF active_events = <<>>
    THEN [stored |-> customer, returned |-> customer]
    ELSE LET total == TotalEffects(active_events)
             modified == [customer EXCEPT
                             !.transaction_frequency = FracMul(@, total.multiplier)]
         IN [stored |-> customer,
             returned |-> IF ~modified.has_effects
                          THEN [modified EXCEPT !.has_effects = TRUE,
                                                !.active_events = active_events,
                                                !.event_risk_adjustment = total.risk]
                          ELSE modified]

EventsInit ==
    /\ ev_now = 0
    /\ \E f \in 1..2 : ev_customer = NewCustomer(f)
    /\ ev_original = ev_customer
    /\ ev_events \in UNION {[1..k -> LifeEvents] : k \in 0..MaxEvents}
    /\ ev_active = <<>>
    /\ ev_view = ev_customer

EventsIdle ==
    /\ ev_now = 0
    /\ ev_customer = NewCustomer(1)
    /\ ev_original = ev_customer
    /\ ev_events = <<>>
    /\ ev_active = <<>>
    /\ ev_view = ev_customer

\* a day of simulated time passes
EventsTick ==
    /\ ev_now < MaxEventTime
    /\ ev_now' = ev_now + 1
    /\ UNCHANGED <<ev_customer, ev_original, ev_events, ev_active, ev_view>>

\* one pass of the loop over the customers: the events active now are applied
\* if there are any, else modified_customer is the customer
EventsApply ==
    LET active_events == SelectActive(ev_events, ev_now)
        result == apply_event_effects(ev_customer, active_events)
    IN /\ ev_active' = active_events
       /\ ev_customer' = IF active_events # <<>> THEN result.stored ELSE ev_customer
       /\ ev_view' = IF active_events # <<>> THEN result.returned ELSE ev_customer
       /\ UNCHANGED <<ev_now, ev_original, ev_events>>

\* ------------------------ _transaction_generation_loop: the state it reads
\* One customer of self.state.customers with its entry of
\* self.state.customer_accounts (as setup left it: no entry or no account if
\* the creations failed) and its part of self.state.active_life_events.
VARIABLES
    st_accounts,        \* self.state.customer_accounts[customer_id]; <<>>: none
    st_setup,           \* that entry when setup() returned
    st_account_ids,     \* account_ids of the loop's last pass
    st_batch            \* transactions the last pass put into its batch

frameVars == <<st_accounts, st_setup, st_account_ids, st_batch>>

FrameIdle ==
    /\ st_accounts = <<>>
    /\ st_setup = <<>>
    /\ st_account_ids = <<>>
    /\ st_batch = 0

FrameInit ==
    /\ EventsInit
    /\ st_accounts \in {<<>>, <<AccId(1)>>, <<AccId(1), AccId(2)>>}
    /\ st_setup = st_accounts
    /\ st_account_ids = <<>>
    /\ st_batch = 0

\* one pass of "for customer in self.state.customers": the overlay, then
\* account_ids = self.state.customer_accounts.get(customer_id, []) and, if the
\* customer is due and has accounts, 1 to 3 transactions generated on
\* account_ids, which the generator only reads
FramePass ==
    /\ EventsApply
    /\ st_account_ids' = st_accounts
    /\ \E due \in BOOLEAN, n \in 1..3 :
          st_batch' = IF due /\ st_accounts # <<>> THEN n ELSE 0
    /\ UNCHANGED <<st_accounts, st_setup>>

\* ------------------------ FraudGenerator._generate_layering_transactions
\* One call on a layering profile.  Timestamps are minutes after
\* fraud_profile.start_time.
VARIABLES
    ly_in,              \* the profile: account_ids and metadata["hops"]
    ly_pc,              \* "start", "loop", "returned"
    ly_accounts,        \* accounts, the shuffled copy
    ly_hop,             \* hop of the next iteration
    ly_txns             \* transactions

layerVars == <<ly_in, ly_pc, ly_accounts, ly_hop, ly_txns>>

\* random.randint(10, 60): the ends and a value between
HopMinutes == {10, 35, 60}

Shuffles(ids) ==
    {p \in [1..Len(ids) -> 1..Len(ids)] : \A i, j \in 1..Len(ids) : p[i] = p[j] => i = j}

LayerIdle ==
    /\ ly_in = [account_ids |-> <<>>, hops |-> 0]
    /\ ly_pc = "returned"
    /\ ly_accounts = <<>>
    /\ ly_hop = 0
    /\ ly_txns = <<>>

LayerInit ==
    /\ \E n \in 2..MaxLayerAccounts, hops \in 1..MaxHops :
         ly_in = [account_ids |-> [i \in 1..n |-> AccId(i)], hops |-> hops]
    /\ ly_pc = "start"
    /\ ly_accounts = <<>>
    /\ ly_hop = 0
    /\ ly_txns = <<>>

\* accounts = fraud_profile.account_ids.copy(); random.shuffle(accounts)
LayerShuffle ==
    /\ ly_pc = "start"
    /\ \E p \in Shuffles(ly_in.account_ids) :
         ly_accounts' = [i \in 1..Len(ly_in.account_ids) |-> ly_in.account_ids[p[i]]]
    /\ ly_pc' = "loop"
    /\ UNCHANGED <<ly_in, ly_hop, ly_txns>>

\* time_offset_minutes = hop * random.randint(10, 60)
TimeOffsetMinutes(hop, drawn) == hop * drawn

\* one iteration of "for hop in range(metadata["hops"])"
LayerHop ==
    /\ ly_pc = "loop"
    /\ ly_hop < ly_in.hops
    /\ ly_hop < Len(ly_accounts) - 1
    /\ \E drawn \in HopMinutes :
         ly_txns' = Append(ly_txns,
                           [from_account_id |-> ly_accounts[ly_hop + 1],
                            to_account_id |-> ly_accounts[ly_hop + 2],
                            hop_sequence |-> ly_hop + 1,
                            timestamp |-> TimeOffsetMinutes(ly_hop, drawn)])
    /\ ly_hop' = ly_hop + 1
    /\ UNCHANGED <<ly_in, ly_pc, ly_accounts>>

\* the range is exhausted or "if hop >= len(accounts) - 1: break"
LayerReturn ==
    /\ ly_pc = "loop"
    /\ ly_hop >= ly_in.hops \/ ly_hop >= Len(ly_accounts) - 1
    /\ ly_pc' = "returned"
    /\ UNCHANGED <<ly_in, ly_accounts, ly_hop, ly_txns>>

\* ------------------------------ setup(): "Generating life events..."
\* The schedule of one customer.  Dates are hours after
\* self.clock.sim_start_time.
VARIABLES
    sch_hours,          \* self.config.duration_hours
    sch_pc,             \* "generating", "scheduled"
    sch_events,         \* events of generate_life_events, in generation order
    sch_active          \* self.state.active_life_events

scheduleVars == <<sch_hours, sch_pc, sch_events, sch_active>>

ScheduleIdle ==
    /\ sch_hours = 1
    /\ sch_pc = "scheduled"
    /\ sch_events = <<>>
    /\ sch_active = <<>>

ScheduleInit ==
    /\ sch_hours \in 1..MaxDurationHours
    /\ sch_pc = "generating"
    /\ sch_events = <<>>
    /\ sch_active = <<>>

\* the duration_days argument of the call in setup():
\* int(self.config.duration_hours * 24)
DurationDaysArgument(duration_hours) == duration_hours * 24

\* timedelta(days=d), in hours
DaysToHours(d) == d * 24

RECURSIVE InsertByDate(_, _)
InsertByDate(sorted, event) ==
    IF sorted = <<>> THEN <<event>>
    ELSE IF event.event_date < sorted[1].event_date
         THEN <<event>> \o sorted
         ELSE <<sorted[1]>> \o InsertByDate(Tail(sorted), event)

\* sorted(events, key=lambda e: e.event_date), which is stable
RECURSIVE SortedByDate(_)
SortedByDate(events) ==
    IF events = <<>> THEN <<>>
    ELSE InsertByDate(SortedByDate(SubSeq(events, 1, Len(events) - 1)),
                      events[Len(events)])

\* _generate_specific_event: event_date = simulation_start +
\* timedelta(days=random.randint(0, duration_days)); every branch keeps it
ScheduleEvent ==
    /\ sch_pc = "generating"
    /\ Len(sch_events) < MaxScheduled
    /\ \E d \in 0..DurationDaysArgument(sch_hours) :
         sch_events' = Append(sch_events,
                              [seq |-> Len(sch_events) + 1,
                               event_date |-> DaysToHours(d)])
    /\ UNCHANGED <<sch_hours, sch_pc, sch_active>>

\* generate_life_events returns and setup() stores the schedule
ScheduleStore ==
    /\ sch_pc = "generating"
    /\ sch_active' = SortedByDate(sch_events)
    /\ sch_pc' = "scheduled"
    /\ UNCHANGED <<sch_hours, sch_events>>

\* ------------------------------------------- scenarios: get_builtin_scenario
\* The module-level catalogue and the calls made on it.  Of a scenario's
\* values only their form matters here: "dict"/"dicts" as written in the
\* source, "config"/"configs" once converted to configuration objects,
\* "absent" for a key the scenario does not have.
VARIABLES
    catalogue,          \* BUILTIN_SCENARIOS as it stands
    sc_results          \* what each get_builtin_scenario call did, in order

scenarioVars == <<catalogue, sc_results>>

BuiltinNames == {"normal_day", "fraud_attack", "peak_load", "mule_network",
                 "onboarding", "regression_test"}

BUILTIN_SCENARIOS ==
    [name \in BuiltinNames |->
        [transaction_rate |-> IF name = "mule_network" THEN "absent" ELSE "dict",
         fraud |-> [patterns |-> "dicts"]]]

ScenarioInit ==
    /\ catalogue = BUILTIN_SCENARIOS
    /\ sc_results = <<>>

\* FraudPatternConfig(**p) for each p of the list: p must be a mapping
PatternsConvert(patterns) == patterns = "dicts"

\* _parse_scenario_data on data = BUILTIN_SCENARIOS[name].copy(): the
\* top-level keys are rebound in the copy, fraud_data is the catalogue's own
\* nested dict and fraud_data['patterns'] is assigned in it.  "source" is the
\* catalogue's entry afterwards.
parse_scenario_data(scenario) ==
    IF PatternsConvert(scenario.fraud.patterns)
    THEN [raised |-> FALSE,
          config |-> [transaction_rate |->
                          IF scenario.transaction_rate = "absent"
                          THEN "default" ELSE "config",
                      fraud |-> [patterns |-> "configs"]],
          source |-> [scenario EXCEPT !.fraud.patterns = "configs"]]
    ELSE [raised |-> TRUE, config |-> "TypeError", source |-> scenario]

\* get_builtin_scenario(name) for a built-in name
get_builtin_scenario ==
    /\ Len(sc_results) < MaxScenarioCalls
    /\ \E name \in BuiltinNames :
         LET r == parse_scenario_data(catalogue[name])
         IN /\ catalogue' = [catalogue EXCEPT ![name] = r.source]
            /\ sc_results' = Append(sc_results,
                                    [name |-> name, raised |-> r.raised,
                                     config |-> r.config])

\* ------------------------------------------------------- specifications
\* Each specification runs one component; the others rest in a fixed state.
ClockIdle ==
    /\ now = 0
    /\ clock = ClockNew(1, 0)
    /\ clk_last_op = "init"
    /\ clk_sim_before = 0
    /\ clk_sim_at_pause = 0
    /\ clk_speed_in_pause = FALSE

ConnIdle ==
    /\ conn_kind = "real"
    /\ max_retries = 0
    /\ conn_stats = [requests_sent |-> 0, requests_successful |-> 0,
                     requests_failed |-> 0, errors |-> 0]
    /\ conn_req = [r \in Reqs |-> NewRequest]

EngineIdle ==
    /\ eng_pc = "idle"
    /\ is_running = FALSE
    /\ is_paused = FALSE
    /\ stop_requested = FALSE
    /\ pause_requested = FALSE
    /\ start_time = NoTime
    /\ current_sim_time = NoTime
    /\ exec_sim_time = NoTime
    /\ config_speed = 1
    /\ kafka_kind = "none"
    /\ loop = [l \in Loops |-> NoTask]
    /\ runtime_stats = [errors |-> 0, transactions_processed |-> 0, fraud_transactions |-> 0]
    /\ ctl_ops = 0
    /\ txns_generated = 0
    /\ txns_started = 0
    /\ failed_txns = 0
    /\ work_while_paused = FALSE
    /\ frozen_sim = NoTime

vars == <<clockVars, connVars, wsVars, engVars, mockVars, setupVars, metricsVars, runVars,
         kafkaVars, pubVars, dashVars, fraudVars, eventVars, sweepVars, tdVars, loopTickVars, concVars, frameVars, scoreVars, layerVars, scheduleVars, scenarioVars>>

\* what the steps of one component leave alone
exceptClock == <<connVars, wsVars, engVars, mockVars, setupVars, metricsVars, runVars,
    kafkaVars, pubVars, dashVars, fraudVars, eventVars, sweepVars, tdVars, loopTickVars, concVars, frameVars, scoreVars, layerVars, scheduleVars, scenarioVars>>
exceptConn == <<clockVars, wsVars, engVars, mockVars, setupVars, metricsVars, runVars,
    kafkaVars, pubVars, dashVars, fraudVars, eventVars, sweepVars, tdVars, loopTickVars, concVars, frameVars, scoreVars, layerVars, scheduleVars, scenarioVars>>
exceptWs == <<clockVars, connVars, engVars, mockVars, setupVars, metricsVars, runVars,
    kafkaVars, pubVars, dashVars, fraudVars, eventVars, sweepVars, tdVars, loopTickVars, concVars, frameVars, scoreVars, layerVars, scheduleVars, scenarioVars>>
exceptMock == <<clockVars, connVars, wsVars, engVars, setupVars, metricsVars, runVars,
    kafkaVars, pubVars, dashVars, fraudVars, eventVars, sweepVars, tdVars, loopTickVars, concVars, frameVars, scoreVars, layerVars, scheduleVars, scenarioVars>>
exceptSetup == <<clockVars, connVars, wsVars, engVars, metricsVars, runVars,
    kafkaVars, pubVars, dashVars, fraudVars, eventVars, sweepVars, tdVars, loopTickVars, concVars, frameVars, scoreVars, layerVars, scheduleVars, scenarioVars>>
exceptEngine == <<connVars, wsVars, mockVars, setupVars, metricsVars, runVars,
    kafkaVars, pubVars, dashVars, fraudVars, eventVars, sweepVars, tdVars, loopTickVars, concVars, frameVars, scoreVars, layerVars, scheduleVars, scenarioVars>>
exceptMetrics == <<clockVars, connVars, wsVars, engVars, mockVars, setupVars, runVars,
    kafkaVars, pubVars, dashVars, fraudVars, eventVars, sweepVars, tdVars, loopTickVars, concVars, frameVars, scoreVars, layerVars, scheduleVars, scenarioVars>>
exceptKafka == <<clockVars, connVars, wsVars, engVars, mockVars, setupVars, metricsVars,
    runVars, pubVars, dashVars, fraudVars, eventVars, sweepVars, tdVars, loopTickVars, concVars, frameVars, scoreVars, layerVars, scheduleVars, scenarioVars>>
exceptRunner == <<clockVars, connVars, wsVars, engVars, mockVars, setupVars, metricsVars,
    kafkaVars, pubVars, dashVars, fraudVars, eventVars, sweepVars, tdVars, loopTickVars, concVars, frameVars, scoreVars, layerVars, scheduleVars, scenarioVars>>
exceptPub == <<clockVars, connVars, wsVars, engVars, mockVars, setupVars, metricsVars,
    runVars, kafkaVars, dashVars, fraudVars, eventVars, sweepVars, tdVars, loopTickVars, concVars, frameVars, scoreVars, layerVars, scheduleVars, scenarioVars>>
\* the dashboard acts on the engine and its clock
exceptDash == <<connVars, wsVars, mockVars, setupVars, metricsVars, runVars, kafkaVars,
    pubVars, fraudVars, eventVars, sweepVars, tdVars, loopTickVars, concVars, frameVars, scoreVars, layerVars, scheduleVars, scenarioVars>>
exceptFraud == <<clockVars, connVars, wsVars, engVars, mockVars, setupVars, metricsVars,
    runVars, kafkaVars, pubVars, dashVars, eventVars, sweepVars, tdVars, loopTickVars, concVars, frameVars, scoreVars, layerVars, scheduleVars, scenarioVars>>
exceptEvents == <<clockVars, connVars, wsVars, engVars, mockVars, setupVars, metricsVars,
    runVars, kafkaVars, pubVars, dashVars, fraudVars, sweepVars, tdVars, loopTickVars, concVars, frameVars, scoreVars, layerVars, scheduleVars, scenarioVars>>
exceptSweep == <<clockVars, connVars, wsVars, engVars, mockVars, setupVars, metricsVars,
    runVars, kafkaVars, pubVars, dashVars, fraudVars, eventVars, tdVars, loopTickVars, concVars, frameVars, scoreVars, layerVars, scheduleVars, scenarioVars>>
\* teardown acts on the engine and its clock
exceptTeardown == <<connVars, wsVars, mockVars, setupVars, metricsVars, runVars, kafkaVars,
    pubVars, dashVars, fraudVars, eventVars, sweepVars, loopTickVars, concVars, frameVars, scoreVars, layerVars, scheduleVars, scenarioVars>>
exceptFraudLoop == <<clockVars, connVars, wsVars, engVars, mockVars, setupVars, metricsVars, runVars,
    kafkaVars, pubVars, dashVars, eventVars, sweepVars, tdVars, concVars, frameVars, scoreVars, layerVars, scheduleVars, scenarioVars>>
\* concurrent calls act on the ledger
exceptConc == <<clockVars, connVars, wsVars, engVars, setupVars, metricsVars, runVars, kafkaVars,
    pubVars, dashVars, fraudVars, eventVars, sweepVars, tdVars, loopTickVars, frameVars, scoreVars, layerVars, scheduleVars, scenarioVars>>
\* a pass of the transaction loop applies the life events
exceptFrame == <<clockVars, connVars, wsVars, engVars, mockVars, setupVars, metricsVars, runVars,
    kafkaVars, pubVars, dashVars, fraudVars, sweepVars, tdVars, loopTickVars, concVars, scoreVars, layerVars, scheduleVars, scenarioVars>>
\* the fraud-scoring connector on its own
exceptScore == <<clockVars, connVars, wsVars, engVars, mockVars, setupVars, metricsVars, runVars,
    kafkaVars, pubVars, dashVars, fraudVars, eventVars, sweepVars, tdVars, loopTickVars, concVars, frameVars, layerVars, scheduleVars, scenarioVars>>
\* the layering generator on its own
exceptLayer == <<clockVars, connVars, wsVars, engVars, mockVars, setupVars, metricsVars, runVars,
    kafkaVars, pubVars, dashVars, fraudVars, eventVars, sweepVars, tdVars, loopTickVars, concVars, frameVars, scoreVars, scheduleVars, scenarioVars>>
\* the life-event schedule on its own
exceptSchedule == <<clockVars, connVars, wsVars, engVars, mockVars, setupVars, metricsVars, runVars,
    kafkaVars, pubVars, dashVars, fraudVars, eventVars, sweepVars, tdVars, loopTickVars, concVars, frameVars, scoreVars, layerVars, scenarioVars>>
\* the scenario catalogue on its own
exceptScenario == <<clockVars, connVars, wsVars, engVars, mockVars, setupVars, metricsVars, runVars,
    kafkaVars, pubVars, dashVars, fraudVars, eventVars, sweepVars, tdVars, loopTickVars, concVars, frameVars, scoreVars, layerVars, scheduleVars>>

\* the clock on its own
ClockSpecNext ==
    \/ ClockTick /\ UNCHANGED exceptClock
    \/ ClockPause /\ UNCHANGED exceptClock
    \/ ClockResume /\ UNCHANGED exceptClock
    \/ ClockSetSpeed /\ UNCHANGED exceptClock

ClockSpecInit == ClockInit /\ ConnIdle /\ WsInit /\ EngineIdle /\ MockInit /\ SetupIdle /\ MetricsIdle /\ RunnerIdle /\ KafkaIdle /\ PubIdle /\ DashIdle /\ FraudIdle /\ EventsIdle /\ SweepInit /\ TdIdle /\ FraudLoopIdle /\ ConcIdle /\ FrameIdle /\ ScoreIdle /\ LayerIdle /\ ScheduleIdle /\ ScenarioInit

ClockSpec == ClockSpecInit /\ [][ClockSpecNext]_vars

\* one connector serving its requests
ConnSpecNext ==
    \/ \E r \in Reqs : ConnStart(r) /\ UNCHANGED exceptConn
    \/ \E r \in Reqs : ConnResponse(r) /\ UNCHANGED exceptConn
    \/ \E r \in Reqs : ConnBackoffDone(r) /\ UNCHANGED exceptConn
    \/ \E r \in Reqs : ConnMockComplete(r) /\ UNCHANGED exceptConn

ConnSpecInit == ConnInit /\ ClockIdle /\ WsInit /\ EngineIdle /\ MockInit /\ SetupIdle /\ MetricsIdle /\ RunnerIdle /\ KafkaIdle /\ PubIdle /\ DashIdle /\ FraudIdle /\ EventsIdle /\ SweepInit /\ TdIdle /\ FraudLoopIdle /\ ConcIdle /\ FrameIdle /\ ScoreIdle /\ LayerIdle /\ ScheduleIdle /\ ScenarioInit

ConnSpec == ConnSpecInit /\ [][ConnSpecNext]_vars

\* the WebSocket manager serving its clients
WsSpecNext ==
    \/ \E s \in Sockets : WsConnect(s) /\ UNCHANGED exceptWs
    \/ \E s \in Sockets : WsPeerClose(s) /\ UNCHANGED exceptWs
    \/ \E s \in Sockets : WsDisconnect(s) /\ UNCHANGED exceptWs
    \/ \E b \in Broadcasts : WsBroadcast(b) /\ UNCHANGED exceptWs
    \/ \E m \in Msgs, s \in Sockets :
          WsSendDone(m, s) /\ UNCHANGED exceptWs
    \/ \E b \in Broadcasts : WsBroadcastReturn(b) /\ UNCHANGED exceptWs

WsSpecInit == WsInit /\ ClockIdle /\ ConnIdle /\ EngineIdle /\ MockInit /\ SetupIdle /\ MetricsIdle /\ RunnerIdle /\ KafkaIdle /\ PubIdle /\ DashIdle /\ FraudIdle /\ EventsIdle /\ SweepInit /\ TdIdle /\ FraudLoopIdle /\ ConcIdle /\ FrameIdle /\ ScoreIdle /\ LayerIdle /\ ScheduleIdle /\ ScenarioInit

WsSpec == WsSpecInit /\ [][WsSpecNext]_vars

\* the WebSocket manager through its shutdown
WsShutdownSpecNext ==
    \/ \E s \in Sockets : WsConnect(s) /\ UNCHANGED exceptWs
    \/ \E s \in Sockets : WsPeerClose(s) /\ UNCHANGED exceptWs
    \/ \E s \in Sockets : WsDisconnect(s) /\ UNCHANGED exceptWs
    \/ \E b \in Broadcasts : WsBroadcast(b) /\ UNCHANGED exceptWs
    \/ \E m \in Msgs, s \in Sockets :
          WsSendDone(m, s) /\ UNCHANGED exceptWs
    \/ \E b \in Broadcasts : WsBroadcastReturn(b) /\ UNCHANGED exceptWs
    \/ WsCloseAll /\ UNCHANGED exceptWs
    \/ \E s \in Sockets : WsCloseOne(s) /\ UNCHANGED exceptWs

WsShutdownSpec == WsSpecInit /\ [][WsShutdownSpecNext]_vars

\* the mock ledger serving calls
LedgerSpecNext ==
    \/ LedgerCreateCustomer /\ UNCHANGED exceptMock
    \/ LedgerCreateAccount /\ UNCHANGED exceptMock
    \/ LedgerGetCustomer /\ UNCHANGED exceptMock
    \/ LedgerGetAccount /\ UNCHANGED exceptMock
    \/ LedgerGetCustomerAccounts /\ UNCHANGED exceptMock
    \/ LedgerDeposit /\ UNCHANGED exceptMock
    \/ LedgerWithdraw /\ UNCHANGED exceptMock
    \/ LedgerTransfer /\ UNCHANGED exceptMock

LedgerSpecInit == MockInit /\ ClockIdle /\ ConnIdle /\ WsInit /\ EngineIdle /\ SetupIdle /\ MetricsIdle /\ RunnerIdle /\ KafkaIdle /\ PubIdle /\ DashIdle /\ FraudIdle /\ EventsIdle /\ SweepInit /\ TdIdle /\ FraudLoopIdle /\ ConcIdle /\ FrameIdle /\ ScoreIdle /\ LayerIdle /\ ScheduleIdle /\ ScenarioInit

LedgerSpec == LedgerSpecInit /\ [][LedgerSpecNext]_vars

\* the mock ledger serving concurrent calls
ConcSpecNext ==
    \/ ConcCall /\ UNCHANGED exceptConc
    \/ ConcServe /\ UNCHANGED exceptConc

ConcSpecInit == MockInit /\ ClockIdle /\ ConnIdle /\ WsInit /\ EngineIdle /\ SetupIdle /\ MetricsIdle /\ RunnerIdle /\ KafkaIdle /\ PubIdle /\ DashIdle /\ FraudIdle /\ EventsIdle /\ SweepInit /\ TdIdle /\ FraudLoopIdle /\ ConcIdle /\ FrameIdle /\ ScoreIdle /\ LayerIdle /\ ScheduleIdle /\ ScenarioInit

ConcSpec == ConcSpecInit /\ [][ConcSpecNext]_vars

\* the engine's setup phase
SetupSpecNext ==
    \/ SetupStart /\ UNCHANGED exceptSetup
    \/ SetupHealthNexum /\ UNCHANGED exceptSetup
    \/ SetupHealthBastion /\ UNCHANGED exceptSetup
    \/ SetupHealthKafka /\ UNCHANGED exceptSetup
    \/ \E i \in 1..MaxCustomers :
          SetupCustomerDone(i) /\ UNCHANGED exceptSetup
    \/ SetupCustomersGathered /\ UNCHANGED exceptSetup
    \/ \E i \in 1..MaxCustomers, j \in 1..MaxAccountsPerCustomer :
          SetupAccountDone(i, j) /\ UNCHANGED exceptSetup
    \/ SetupAccountsGathered /\ UNCHANGED exceptSetup
    \/ \E a \in DOMAIN setup_tasks :
          SetupBalanceDone(a) /\ UNCHANGED exceptSetup
    \/ SetupFinish /\ UNCHANGED exceptSetup

SetupSpecInit == SetupInit /\ MockInit /\ ClockIdle /\ ConnIdle /\ WsInit /\ EngineIdle /\ MetricsIdle /\ RunnerIdle /\ KafkaIdle /\ PubIdle /\ DashIdle /\ FraudIdle /\ EventsIdle /\ SweepInit /\ TdIdle /\ FraudLoopIdle /\ ConcIdle /\ FrameIdle /\ ScoreIdle /\ LayerIdle /\ ScheduleIdle /\ ScenarioInit

SetupSpec == SetupSpecInit /\ [][SetupSpecNext]_vars

\* the metrics collector, its recorders called one by one, and its collection loop
MetricsSpecNext ==
    \/ MetricsTick /\ UNCHANGED exceptMetrics
    \/ RecordCounter /\ UNCHANGED exceptMetrics
    \/ RecordGauge /\ UNCHANGED exceptMetrics
    \/ RecordTiming /\ UNCHANGED exceptMetrics
    \/ CollectionCycle /\ UNCHANGED exceptMetrics

MetricsSpecInit ==
    /\ MetricsInit /\ MockInit /\ ClockIdle /\ ConnIdle /\ WsInit /\ EngineIdle /\ SetupIdle
    /\ RunnerIdle /\ KafkaIdle /\ PubIdle /\ DashIdle /\ FraudIdle /\ EventsIdle /\ SweepInit /\ TdIdle /\ FraudLoopIdle /\ ConcIdle /\ FrameIdle /\ ScoreIdle /\ LayerIdle /\ ScheduleIdle /\ ScenarioInit

MetricsSpec == MetricsSpecInit /\ [][MetricsSpecNext]_vars

\* the transaction submission pipeline recording into the collector
PipelineSpecNext ==
    \/ PipelineStart /\ UNCHANGED exceptMetrics
    \/ PipelineNexumDone /\ UNCHANGED exceptMetrics
    \/ PipelineScored /\ UNCHANGED exceptMetrics

PipelineSpec == MetricsSpecInit /\ [][PipelineSpecNext]_vars

\* the command-line runner
RunnerSpecNext ==
    \/ RunEnter /\ UNCHANGED exceptRunner
    \/ RunStartDashboard /\ UNCHANGED exceptRunner
    \/ RunStartSimulation /\ UNCHANGED exceptRunner
    \/ RunSignal /\ UNCHANGED exceptRunner
    \/ SimSetupDone /\ UNCHANGED exceptRunner
    \/ SimExecutePoll /\ UNCHANGED exceptRunner
    \/ SimReportDone /\ UNCHANGED exceptRunner
    \/ RunGatherReturns /\ UNCHANGED exceptRunner
    \/ RunEngineExit /\ UNCHANGED exceptRunner
    \/ RunCleanup /\ UNCHANGED exceptRunner

RunnerSpecInit ==
    /\ RunnerInit /\ MockInit /\ ClockIdle /\ ConnIdle /\ WsInit /\ EngineIdle /\ SetupIdle
    /\ MetricsIdle /\ KafkaIdle /\ PubIdle /\ DashIdle /\ FraudIdle /\ EventsIdle /\ SweepInit /\ TdIdle /\ FraudLoopIdle /\ ConcIdle /\ FrameIdle /\ ScoreIdle /\ LayerIdle /\ ScheduleIdle /\ ScenarioInit

RunnerSpec == RunnerSpecInit /\ [][RunnerSpecNext]_vars

\* asyncio runs every task that is ready and every awaited call ends; no
\* signal has to arrive
RunnerFairSpec ==
    /\ RunnerSpec
    /\ WF_runVars(RunEnter)
    /\ WF_runVars(RunStartDashboard)
    /\ WF_runVars(RunStartSimulation)
    /\ WF_runVars(SimSetupDone)
    /\ WF_runVars(SimExecutePoll)
    /\ WF_runVars(SimReportDone)
    /\ WF_runVars(RunGatherReturns)
    /\ WF_runVars(RunEngineExit)
    /\ WF_runVars(RunCleanup)

\* the message bus connector serving start_consumer and stop_consumer calls
KafkaSpecNext ==
    \/ \E topic \in Topics : StartConsumerBegin(topic) /\ UNCHANGED exceptKafka
    \/ \E k \in 1..MaxKafkaCalls : k <= Len(kc_calls) /\ StartConsumerEnd(k) /\ UNCHANGED exceptKafka
    \/ \E topic \in Topics : StopConsumerBegin(topic) /\ UNCHANGED exceptKafka
    \/ \E k \in 1..MaxKafkaCalls : k <= Len(kc_calls) /\ StopConsumerEnd(k) /\ UNCHANGED exceptKafka
    \/ \E topic \in Topics : MockStartConsumer(topic) /\ UNCHANGED exceptKafka
    \/ \E topic \in Topics : MockStopConsumer(topic) /\ UNCHANGED exceptKafka

KafkaSpecInit ==
    /\ KafkaInit /\ MockInit /\ ClockIdle /\ ConnIdle /\ WsInit /\ EngineIdle /\ SetupIdle
    /\ MetricsIdle /\ RunnerIdle /\ PubIdle /\ DashIdle /\ FraudIdle /\ EventsIdle /\ SweepInit /\ TdIdle /\ FraudLoopIdle /\ ConcIdle /\ FrameIdle /\ ScoreIdle /\ LayerIdle /\ ScheduleIdle /\ ScenarioInit

KafkaSpec == KafkaSpecInit /\ [][KafkaSpecNext]_vars

\* the message bus connector serving publish calls
PublishSpecNext ==
    \/ \E topic \in Topics, plain \in BOOLEAN : PublishBegin(topic, plain) /\ UNCHANGED exceptPub
    \/ PublishEnd /\ UNCHANGED exceptPub
    \/ \E topic \in Topics, plain \in BOOLEAN : MockPublish(topic, plain) /\ UNCHANGED exceptPub

PublishSpecInit ==
    /\ PubInit /\ MockInit /\ ClockIdle /\ ConnIdle /\ WsInit /\ EngineIdle /\ SetupIdle
    /\ MetricsIdle /\ RunnerIdle /\ KafkaIdle /\ DashIdle /\ FraudIdle /\ EventsIdle /\ SweepInit /\ TdIdle /\ FraudLoopIdle /\ ConcIdle /\ FrameIdle /\ ScoreIdle /\ LayerIdle /\ ScheduleIdle /\ ScenarioInit

PublishSpec == PublishSpecInit /\ [][PublishSpecNext]_vars

\* the dashboard's control routes driving an engine
DashboardSpecNext ==
    \/ \E op \in ControlOps : DashControl(op) /\ UNCHANGED exceptDash
    \/ \E m \in Multipliers : DashSetSpeed(m) /\ UNCHANGED exceptDash
    \/ DashStart /\ UNCHANGED exceptDash
    \/ DashResponds /\ UNCHANGED exceptDash

DashboardSpecInit ==
    /\ DashInit /\ EngineInit /\ ConnIdle /\ WsInit /\ MockInit /\ SetupIdle /\ MetricsIdle
    /\ RunnerIdle /\ KafkaIdle /\ PubIdle /\ FraudIdle /\ EventsIdle /\ SweepInit /\ TdIdle /\ FraudLoopIdle /\ ConcIdle /\ FrameIdle /\ ScoreIdle /\ LayerIdle /\ ScheduleIdle /\ ScenarioInit

DashboardSpec == DashboardSpecInit /\ [][DashboardSpecNext]_vars

\* the fraud generator constructing a profile or a network and generating
\* a structuring profile's transactions
FraudSpecNext ==
    \/ FraudAttack /\ UNCHANGED exceptFraud
    \/ FraudRing /\ UNCHANGED exceptFraud
    \/ MuleNetworkBegin /\ UNCHANGED exceptFraud
    \/ MuleNetworkLayer /\ UNCHANGED exceptFraud
    \/ StructuringBegin /\ UNCHANGED exceptFraud
    \/ StructuringStep /\ UNCHANGED exceptFraud

FraudSpecInit ==
    /\ FraudInit /\ MockInit /\ ClockIdle /\ ConnIdle /\ WsInit /\ EngineIdle /\ SetupIdle
    /\ MetricsIdle /\ RunnerIdle /\ KafkaIdle /\ PubIdle /\ DashIdle /\ EventsIdle /\ SweepInit /\ TdIdle /\ FraudLoopIdle /\ ConcIdle /\ FrameIdle /\ ScoreIdle /\ LayerIdle /\ ScheduleIdle /\ ScenarioInit

FraudSpec == FraudSpecInit /\ [][FraudSpecNext]_vars

\* the fraud loop on a structuring profile
FraudLoopSpecNext ==
    \/ FraudAttack /\ UNCHANGED loopTickVars /\ UNCHANGED exceptFraudLoop
    \/ StructuringBegin /\ UNCHANGED loopTickVars /\ UNCHANGED exceptFraudLoop
    \/ StructuringStep /\ UNCHANGED loopTickVars /\ UNCHANGED exceptFraudLoop
    \/ FraudLoopSubmit /\ UNCHANGED exceptFraudLoop

FraudLoopSpecInit ==
    /\ FraudLoopInit /\ MockInit /\ ClockIdle /\ ConnIdle /\ WsInit /\ EngineIdle /\ SetupIdle
    /\ MetricsIdle /\ RunnerIdle /\ KafkaIdle /\ PubIdle /\ DashIdle /\ EventsIdle /\ SweepInit /\ TdIdle /\ FraudLoopIdle /\ ConcIdle /\ FrameIdle /\ ScoreIdle /\ LayerIdle /\ ScheduleIdle /\ ScenarioInit

FraudLoopSpec == FraudLoopSpecInit /\ [][FraudLoopSpecNext]_vars

\* life events applied to a customer as simulated time passes
EventsSpecNext ==
    \/ EventsTick /\ UNCHANGED exceptEvents
    \/ EventsApply /\ UNCHANGED exceptEvents

EventsSpecInit ==
    /\ EventsInit /\ MockInit /\ ClockIdle /\ ConnIdle /\ WsInit /\ EngineIdle /\ SetupIdle
    /\ MetricsIdle /\ RunnerIdle /\ KafkaIdle /\ PubIdle /\ DashIdle /\ FraudIdle /\ SweepInit /\ TdIdle /\ FraudLoopIdle /\ ConcIdle /\ FrameIdle /\ ScoreIdle /\ LayerIdle /\ ScheduleIdle /\ ScenarioInit

EventsSpec == EventsSpecInit /\ [][EventsSpecNext]_vars

\* the transaction loop's passes over the state that setup built
FrameSpecNext ==
    \/ EventsTick /\ UNCHANGED frameVars /\ UNCHANGED exceptFrame
    \/ FramePass /\ UNCHANGED exceptFrame

FrameSpecInit ==
    /\ FrameInit /\ MockInit /\ ClockIdle /\ ConnIdle /\ WsInit /\ EngineIdle /\ SetupIdle
    /\ MetricsIdle /\ RunnerIdle /\ KafkaIdle /\ PubIdle /\ DashIdle /\ FraudIdle /\ SweepInit /\ TdIdle /\ FraudLoopIdle /\ ConcIdle /\ ScoreIdle /\ LayerIdle /\ ScheduleIdle /\ ScenarioInit

FrameSpec == FrameSpecInit /\ [][FrameSpecNext]_vars

\* one fraud-scoring connector, real or mock, scoring transactions
ScoreSpecNext ==
    \/ RealScore /\ UNCHANGED exceptScore
    \/ MockScore /\ UNCHANGED exceptScore

ScoreSpecInit ==
    /\ ScoreInit /\ MockInit /\ ClockIdle /\ ConnIdle /\ WsInit /\ EngineIdle /\ SetupIdle
    /\ MetricsIdle /\ RunnerIdle /\ KafkaIdle /\ PubIdle /\ DashIdle /\ FraudIdle /\ SweepInit /\ TdIdle /\ FraudLoopIdle /\ ConcIdle /\ FrameIdle /\ EventsIdle /\ LayerIdle /\ ScheduleIdle /\ ScenarioInit

ScoreSpec == ScoreSpecInit /\ [][ScoreSpecNext]_vars

\* one layering sequence being generated
LayerSpecNext ==
    \/ LayerShuffle /\ UNCHANGED exceptLayer
    \/ LayerHop /\ UNCHANGED exceptLayer
    \/ LayerReturn /\ UNCHANGED exceptLayer

LayerSpecInit ==
    /\ LayerInit /\ MockInit /\ ClockIdle /\ ConnIdle /\ WsInit /\ EngineIdle /\ SetupIdle
    /\ MetricsIdle /\ RunnerIdle /\ KafkaIdle /\ PubIdle /\ DashIdle /\ FraudIdle /\ SweepInit /\ TdIdle /\ FraudLoopIdle /\ ConcIdle /\ FrameIdle /\ EventsIdle /\ ScoreIdle /\ ScheduleIdle /\ ScenarioInit

LayerSpec == LayerSpecInit /\ [][LayerSpecNext]_vars

\* setup() scheduling the life events of a customer
ScheduleSpecNext ==
    \/ ScheduleEvent /\ UNCHANGED exceptSchedule
    \/ ScheduleStore /\ UNCHANGED exceptSchedule

ScheduleSpecInit ==
    /\ ScheduleInit /\ MockInit /\ ClockIdle /\ ConnIdle /\ WsInit /\ EngineIdle /\ SetupIdle
    /\ MetricsIdle /\ RunnerIdle /\ KafkaIdle /\ PubIdle /\ DashIdle /\ FraudIdle /\ SweepInit /\ TdIdle /\ FraudLoopIdle /\ ConcIdle /\ FrameIdle /\ EventsIdle /\ ScoreIdle /\ LayerIdle /\ ScenarioInit

ScheduleSpec == ScheduleSpecInit /\ [][ScheduleSpecNext]_vars

\* calls of get_builtin_scenario in one process
ScenarioSpecNext ==
    \/ get_builtin_scenario /\ UNCHANGED exceptScenario

ScenarioSpecInit ==
    /\ ScenarioInit /\ MockInit /\ ClockIdle /\ ConnIdle /\ WsInit /\ EngineIdle /\ SetupIdle
    /\ MetricsIdle /\ RunnerIdle /\ KafkaIdle /\ PubIdle /\ DashIdle /\ FraudIdle /\ SweepInit /\ TdIdle /\ FraudLoopIdle /\ ConcIdle /\ FrameIdle /\ EventsIdle /\ ScoreIdle /\ LayerIdle /\ ScheduleIdle

ScenarioSpec == ScenarioSpecInit /\ [][ScenarioSpecNext]_vars

\* the WebSocket manager with its idle sweep
SweepSpecNext ==
    \/ SweepTick /\ UNCHANGED exceptSweep
    \/ \E s \in Sockets : SweepConnect(s) /\ UNCHANGED exceptSweep
    \/ \E s \in Sockets : SweepSend(s) /\ UNCHANGED exceptSweep
    \/ \E s \in Sockets : SweepDisconnect(s) /\ UNCHANGED exceptSweep
    \/ \E t \in 1..MaxIdleMinutes : SweepCleanup(t) /\ UNCHANGED exceptSweep

SweepSpecInit ==
    /\ SweepInit /\ MockInit /\ ClockIdle /\ ConnIdle /\ WsInit /\ EngineIdle /\ SetupIdle
    /\ MetricsIdle /\ RunnerIdle /\ KafkaIdle /\ PubIdle /\ DashIdle /\ FraudIdle /\ EventsIdle /\ TdIdle /\ FraudLoopIdle /\ ConcIdle /\ FrameIdle /\ ScoreIdle /\ LayerIdle /\ ScheduleIdle /\ ScenarioInit

SweepSpec == SweepSpecInit /\ [][SweepSpecNext]_vars

\* the engine's execution phase
Next ==
    \/ EnginePause /\ UNCHANGED exceptEngine
    \/ EngineResume /\ UNCHANGED exceptEngine
    \/ EngineStop /\ UNCHANGED exceptEngine
    \/ EngineSetSpeed /\ UNCHANGED exceptEngine
    \/ ExecStart /\ UNCHANGED exceptEngine
    \/ ExecPoll /\ UNCHANGED exceptEngine
    \/ ExecPauseWait /\ UNCHANGED exceptEngine
    \/ ExecResume /\ UNCHANGED exceptEngine
    \/ ExecReturn /\ UNCHANGED exceptEngine
    \/ GenerateReport /\ UNCHANGED exceptEngine
    \/ \E l \in TxLoops : LoopWake(l) /\ UNCHANGED exceptEngine
    \/ \E l \in TxLoops : NexumDone(l) /\ UNCHANGED exceptEngine
    \/ \E l \in TxLoops : BastionDone(l) /\ UNCHANGED exceptEngine
    \/ \E l \in TxLoops : KafkaTxnDone(l) /\ UNCHANGED exceptEngine
    \/ \E l \in TxLoops : KafkaDecDone(l) /\ UNCHANGED exceptEngine
    \/ \E l \in Loops : ReportingLoopExit(l) /\ UNCHANGED exceptEngine

Init == EngineInit /\ ConnIdle /\ WsInit /\ MockInit /\ SetupIdle /\ MetricsIdle /\ RunnerIdle /\ KafkaIdle /\ PubIdle /\ DashIdle /\ FraudIdle /\ EventsIdle /\ SweepInit /\ TdIdle /\ FraudLoopIdle /\ ConcIdle /\ FrameIdle /\ ScoreIdle /\ LayerIdle /\ ScheduleIdle /\ ScenarioInit

Spec == Init /\ [][Next]_vars

\* the engine running and being torn down
TeardownSpecNext ==
    \/ EnginePause /\ UNCHANGED tdVars /\ UNCHANGED exceptTeardown
    \/ EngineResume /\ UNCHANGED tdVars /\ UNCHANGED exceptTeardown
    \/ EngineStop /\ UNCHANGED tdVars /\ UNCHANGED exceptTeardown
    \/ TdOpen /\ ExecStart /\ UNCHANGED tdVars /\ UNCHANGED exceptTeardown
    \/ TdOpen /\ ExecPoll /\ UNCHANGED tdVars /\ UNCHANGED exceptTeardown
    \/ TdOpen /\ ExecPauseWait /\ UNCHANGED tdVars /\ UNCHANGED exceptTeardown
    \/ TdOpen /\ ExecResume /\ UNCHANGED tdVars /\ UNCHANGED exceptTeardown
    \/ TdOpen /\ ExecReturn /\ UNCHANGED tdVars /\ UNCHANGED exceptTeardown
    \/ TdOpen /\ GenerateReport /\ UNCHANGED tdVars /\ UNCHANGED exceptTeardown
    \/ \E l \in TxLoops : TdOpen /\ LoopWake(l) /\ UNCHANGED tdVars /\ UNCHANGED exceptTeardown
    \/ \E l \in TxLoops : TdOpen /\ NexumDone(l) /\ UNCHANGED tdVars /\ UNCHANGED exceptTeardown
    \/ \E l \in TxLoops : TdOpen /\ BastionDone(l) /\ UNCHANGED tdVars /\ UNCHANGED exceptTeardown
    \/ \E l \in TxLoops : TdOpen /\ KafkaTxnDone(l) /\ UNCHANGED tdVars /\ UNCHANGED exceptTeardown
    \/ \E l \in TxLoops : TdOpen /\ KafkaDecDone(l) /\ UNCHANGED tdVars /\ UNCHANGED exceptTeardown
    \/ \E l \in Loops : TdOpen /\ ReportingLoopExit(l) /\ UNCHANGED tdVars /\ UNCHANGED exceptTeardown
    \/ TdCancelTasks /\ UNCHANGED exceptTeardown
    \/ \E l \in Loops : TdTaskCancelled(l) /\ UNCHANGED exceptTeardown
    \/ TdGathered /\ UNCHANGED exceptTeardown
    \/ TdStopMetrics /\ UNCHANGED exceptTeardown
    \/ TdCloseKafka /\ UNCHANGED exceptTeardown
    \/ TdCloseBastion /\ UNCHANGED exceptTeardown
    \/ TdCloseNexum /\ UNCHANGED exceptTeardown

TeardownSpecInit == EngineInit /\ ConnIdle /\ WsInit /\ MockInit /\ SetupIdle /\ MetricsIdle /\ RunnerIdle /\ KafkaIdle /\ PubIdle /\ DashIdle /\ FraudIdle /\ EventsIdle /\ SweepInit /\ TdIdle /\ FraudLoopIdle /\ ConcIdle /\ FrameIdle /\ ScoreIdle /\ LayerIdle /\ ScheduleIdle /\ ScenarioInit

TeardownSpec == TeardownSpecInit /\ [][TeardownSpecNext]_vars

\* the variables the engine's steps write
engineState == <<clockVars, engVars>>

\* asyncio runs every task that is ready, and every awaited call and sleep ends
FairSpec ==
    /\ Spec
    /\ WF_engineState(ExecPoll)
    /\ WF_engineState(ExecResume)
    /\ WF_engineState(ExecReturn)
    /\ \A l \in TxLoops :
          /\ WF_engineState(LoopWake(l))
          /\ WF_engineState(NexumDone(l))
          /\ WF_engineState(BastionDone(l))
          /\ WF_engineState(KafkaTxnDone(l))
          /\ WF_engineState(KafkaDecDone(l))
    /\ \A l \in Loops : WF_engineState(ReportingLoopExit(l))

\* ------------------------------------------------------------- claims
\* C1: the simulated time read immediately after a set_speed call equals the
\* simulated time read immediately before it, in every clock state (running,
\* paused, resumed after earlier pauses).
C1_SetSpeedContinuous ==
    clk_last_op = "set_speed" => get_current_sim_time(clock, now) = clk_sim_before

\* a speed change on a running clock that has already been paused and resumed
\* and has advanced since its anchor
C1_Witness ==
    /\ clk_last_op = "set_speed"
    /\ ~clock.paused
    /\ clock.pause_duration > 0
    /\ clk_sim_before > 1

\* C2 (as claimed): while paused, current_sim_time() is the simulated time the
\* clock had reached when pause() was called.
C2_PausedReadsTimeAtPause ==
    clock.paused => get_current_sim_time(clock, now) = clk_sim_at_pause

C4_ExecuteReturns ==
    /\ ((<>[](~pause_requested)) \/ <>stop_requested)
          => ((eng_pc # "idle") ~> (eng_pc \in {"returned", "reported"}))
    /\ [](eng_pc \in {"wait_tasks", "returned", "reported"}
             => (stop_requested \/ exec_sim_time >= end_time))

\* execute() has returned at the end of the duration, without any stop, after
\* a pause that was cleared and with a transaction processed
C4_Witness ==
    /\ eng_pc = "returned"
    /\ ~stop_requested
    /\ clock.pause_duration > 0
    /\ exec_sim_time >= end_time
    /\ runtime_stats.transactions_processed > 0

\* C5 (as claimed): while the engine is paused the simulated clock stays at
\* the value it had when the pause began, and no loop generates a batch or
\* submits a transaction to a downstream system.
C5_PausedEngineIdle ==
    /\ ~work_while_paused
    /\ is_paused => get_current_sim_time(clock, now) = frozen_sim

\* C6 (as claimed): every transaction in whose pipeline a step raised an
\* exception has added one to the engine's error count.
C6_EveryFailureCounted ==
    runtime_stats.errors = failed_txns

ConnDone(q) == q.pc \in {"returned", "raised"}

\* C7: with max_retries = n, a request whose every attempt ends in a 5xx
\* response, a timeout or a connection failure makes exactly n + 1 attempts and
\* then raises; no request ever makes more than n + 1 attempts.
C7_RetriesExhausted ==
    \A r \in Reqs :
        LET q == conn_req[r] IN
        /\ q.attempts <= max_retries + 1
        /\ (ConnDone(q) /\ q.attempts > 0 /\ q.only_retryable)
              => /\ q.attempts = max_retries + 1
                 /\ q.pc = "raised"
                 /\ q.error \in {"api", "connection"}

\* max_retries = 3 and four failing attempts, then the failure
C7_Witness ==
    \E r \in Reqs :
        /\ max_retries = 3
        /\ conn_req[r].pc = "raised"
        /\ conn_req[r].only_retryable
        /\ conn_req[r].attempts = 4
        /\ conn_req[r].error = "api"
        /\ conn_req[r].status = 503

\* C8: an attempt that receives a 4xx response ends the request at once with
\* an API error carrying that status code; no further attempt is made (so a
\* server that always answers 404 sees exactly one attempt).
C8_ClientErrorNotRetried ==
    \A r \in Reqs :
        LET q == conn_req[r] IN
        q.first4xx_attempt > 0
            => /\ q.pc = "raised"
               /\ q.error = "api"
               /\ q.status = q.first4xx_status
               /\ q.attempts = q.first4xx_attempt

\* a 404 on the first attempt of a connector that would retry, and a 4xx
\* after an earlier retried failure
C8_Witness ==
    /\ max_retries = 3
    /\ \E r \in Reqs :
          /\ conn_req[r].first4xx_status = 404
          /\ conn_req[r].attempts = 1
          /\ conn_req[r].pc = "raised"
    /\ \E r \in Reqs :
          /\ conn_req[r].first4xx_status = 400
          /\ conn_req[r].attempts = 2

\* C9 (as claimed): every completed request counts once in requests_sent and
\* in exactly one of requests_successful (it returned) or requests_failed (it
\* raised); so sent = successful + failed whenever no request is in flight.
C9_StatsMatchOutcomes ==
    (\A r \in Reqs : conn_req[r].pc \in {"idle", "returned", "raised"})
        => /\ conn_stats.requests_sent =
                  conn_stats.requests_successful + conn_stats.requests_failed
           /\ conn_stats.requests_successful =
                  Cardinality({r \in Reqs : conn_req[r].pc = "returned"})
           /\ conn_stats.requests_failed =
                  Cardinality({r \in Reqs : conn_req[r].pc = "raised"})

\* C10: a finished broadcast has sent to every client that was connected when
\* it began; each client whose send succeeded received exactly one copy, each
\* client whose send failed received none and is out of the active set, and a
\* failure never leaves another client without its send.
C10_BroadcastDelivery ==
    \A b \in Broadcasts :
        /\ \A s \in Sockets :
              /\ ws_delivered[b][s] <= 1
              /\ ws_result[b][s] = "ok" => ws_delivered[b][s] = 1
              /\ ws_result[b][s] = "failed" =>
                    (ws_delivered[b][s] = 0 /\ s \notin active_connections)
              /\ ws_result[b][s] \in {"none", "pending"} => ws_delivered[b][s] = 0
              /\ ws_result[b][s] # "none" <=> s \in ws_bcast[b].snapshot
        /\ ws_bcast[b].state = "done" =>
              \A s \in ws_bcast[b].snapshot : ws_result[b][s] \in {"ok", "failed"}

\* a finished broadcast to two clients: the send to one failed, the other got
\* its copy and is still connected
C10_Witness ==
    \E b \in Broadcasts :
        /\ ws_bcast[b].state = "done"
        /\ Cardinality(ws_bcast[b].snapshot) >= 2
        /\ \E s, t \in ws_bcast[b].snapshot :
              /\ ws_result[b][s] = "failed"
              /\ ws_result[b][t] = "ok"
              /\ ws_delivered[b][t] = 1
              /\ t \in active_connections

\* C11: whatever connect, disconnect, failed-send and close-all operations
\* have run, the keys of connection_info are exactly the sockets of the active
\* set, stats["active_connections"] is the size of the active set, and a
\* socket that was registered and is no longer active has no connection_info.
C11_RegistryConsistent ==
    /\ DOMAIN connection_info = active_connections
    /\ ws_stats.active_connections = Cardinality(active_connections)
    /\ \A s \in Sockets :
          (ws_sock[s] # "new" /\ s \notin active_connections)
              => s \notin DOMAIN connection_info

\* a send has failed, close_all_connections has cleared a registration and
\* has returned, and a client is connected
C11_Witness ==
    /\ ws_stats.messages_failed > 0
    /\ ws_close.cleared > 0
    /\ ws_close.state = "idle"
    /\ active_connections # {}

\* C12: when setup() has completed in dry-run mode, customers_created is the
\* configured number of customers and accounts_created is that number times
\* accounts_per_customer.
C12_DryRunSetupCounts ==
    (setup_pc = "done" /\ setup_cfg.dry_run)
        => /\ setup_stats.customers_created = setup_cfg.customers
           /\ setup_stats.accounts_created =
                  setup_cfg.customers * setup_cfg.accounts_per_customer

\* a finished dry-run setup of two customers with two accounts each
C12_Witness ==
    /\ setup_pc = "done"
    /\ setup_cfg.dry_run
    /\ setup_cfg.customers = 2
    /\ setup_cfg.accounts_per_customer = 2
    /\ setup_stats.accounts_created = 4
    /\ Cardinality(DOMAIN mock.accounts) = 4

\* the counter the claim's table names for a decision on a transaction
ClaimedCounter(is_fraud, decision) ==
    IF is_fraud
    THEN IF decision \in {"REVIEW", "DECLINE"} THEN "true_positives" ELSE "false_negatives"
    ELSE IF decision \in {"REVIEW", "DECLINE"} THEN "false_positives" ELSE "true_negatives"

\* the four confusion-matrix counters after the decision just recorded: the
\* claimed one is one higher than before, the other three are as before
OneCounterIncremented ==
    \A c \in ConfusionCounters :
        metrics.counters[c] =
            m_last.before.counters[c]
                + (IF c = ClaimedCounter(pipe.is_fraud, m_last.name) THEN 1 ELSE 0)

\* C13 (as claimed): every fraud decision recorded by the submission pipeline
\* increments exactly one of the four confusion-matrix counters, the one the
\* stamp is_fraud and the decision select, and leaves the other three unchanged
C13_AsClaimed == m_last.op = "record_fraud_decision" => OneCounterIncremented

\* C13 (amended): every fraud decision recorded by the submission pipeline
\* while the metrics collector is enabled increments exactly one of the four
\* confusion-matrix counters, the one the stamp is_fraud and the decision
\* select, and leaves the other three unchanged; a disabled collector leaves
\* all four unchanged
C13_ConfusionMatrix ==
    m_last.op = "record_fraud_decision"
        => IF metrics.enabled
           THEN OneCounterIncremented
           ELSE \A c \in ConfusionCounters : metrics.counters[c] = m_last.before.counters[c]

\* an enabled collector has recorded a declined fraud and an approved
\* legitimate transaction, and nothing else
C13_Witness ==
    /\ metrics.enabled
    /\ m_last.op = "record_fraud_decision"
    /\ metrics.counters["true_positives"] = 1
    /\ metrics.counters["true_negatives"] = 1
    /\ metrics.counters["false_positives"] = 0
    /\ metrics.counters["false_negatives"] = 0

\* the last k items of a sequence, in their order
Newest(k, seq) == IF Len(seq) > k THEN SubSeq(seq, Len(seq) - k + 1, Len(seq)) ELSE seq

Range(seq) == {seq[i] : i \in DOMAIN seq}

\* C14: after any sequence of recordings every time series holds at most
\* SeriesCap points and every histogram buffer at most SeriesCap samples; a
\* histogram buffer holds the newest SeriesCap samples it received, in arrival
\* order, and a recording into a full time series evicts its oldest point and
\* appends the new one
C14_BuffersCapped ==
    /\ \A name \in DOMAIN metrics.time_series : Len(metrics.time_series[name]) <= SeriesCap
    /\ \A name \in DOMAIN metrics.histograms :
          /\ Len(metrics.histograms[name]) <= SeriesCap
          /\ metrics.histograms[name] = Newest(SeriesCap, metrics.samples[name])
    /\ (metrics.enabled /\ m_last.op \in {"record_counter", "record_gauge", "record_histogram"})
          => LET old == Get(m_last.before.time_series, m_last.name, <<>>)
                 new == metrics.time_series[m_last.name]
                 point == new[Len(new)]
             IN /\ point.n = metrics.arrivals
                /\ point.timestamp = m_now
                /\ new = (IF Len(old) = SeriesCap THEN Tail(old) ELSE old) \o <<point>>

\* a sample has just been recorded into a full histogram buffer and a full
\* time series
C14_Witness ==
    /\ m_last.op = "record_histogram"
    /\ Len(Get(m_last.before.histograms, m_last.name, <<>>)) = SeriesCap
    /\ Len(Get(m_last.before.time_series, m_last.name, <<>>)) = SeriesCap
    /\ Len(metrics.samples[m_last.name]) > SeriesCap

\* C15: right after a cleanup cycle with retention window R, no time series
\* contains a point older than R, every point recorded less than R ago that
\* is among the newest SeriesCap of its series is still present, and a query
\* over the window R returns the whole series
C15_CleanupKeepsRetention ==
    m_last.op = "cleanup"
        => \A name \in DOMAIN metrics.time_series :
              LET series == metrics.time_series[name]
                  R == metrics.retention_minutes
              IN /\ \A i \in DOMAIN series : m_now - series[i].timestamp <= R
                 /\ \A p \in Range(Newest(SeriesCap, Get(metrics.recorded, name, <<>>))) :
                       m_now - p.timestamp < R => p \in Range(series)
                 /\ get_time_series_data(metrics, name, R, m_now) = series

\* a cleanup has just removed an expired point from a series and kept a
\* younger point of the same series
C15_Witness ==
    /\ m_last.op = "cleanup"
    /\ \E name \in DOMAIN metrics.time_series :
          /\ Len(metrics.time_series[name]) > 0
          /\ Len(metrics.time_series[name]) < Len(m_last.before.time_series[name])

\* C16: in the mock ledger a withdrawal or transfer whose amount exceeds the
\* source account's current balance returns state declined and leaves every
\* account balance unchanged
C16_DeclinedLeavesBalances ==
    (/\ mock_last.op \in {"withdraw", "transfer"}
     /\ mock_last.id \in DOMAIN mock_last.before.accounts
     /\ mock_last.amount > 4 * mock_last.before.accounts[mock_last.id].balance)
        => /\ mock_last.body.state = "declined"
           /\ mock.accounts = mock_last.before.accounts

\* a transfer between two accounts of the ledger has just been declined
\* because it asked for more than the positive balance of its source
C16_Witness ==
    /\ mock_last.op = "transfer"
    /\ mock_last.id \in DOMAIN mock_last.before.accounts
    /\ mock_last.to \in DOMAIN mock_last.before.accounts
    /\ mock_last.before.accounts[mock_last.id].balance > 0
    /\ mock_last.amount > 4 * mock_last.before.accounts[mock_last.id].balance
    /\ mock_last.body.state = "declined"

\* the accounts the ledger holds for a customer
AccountsOf(m, customer_id) == {a \in DOMAIN m.accounts : m.accounts[a].customer_id = customer_id}

\* C17 (as claimed): in mock mode a lookup of an id that was never created
\* fails with status 404, a lookup of a created customer or account returns
\* the stored data, and the lookup of a created customer's accounts returns
\* exactly the accounts created for that customer
C17_LookupsAsClaimed ==
    /\ mock_last.op = "get_customer"
          => IF mock_last.id \in DOMAIN mock.customers
             THEN mock_last.ok /\ mock_last.body = mock.customers[mock_last.id]
             ELSE ~mock_last.ok /\ mock_last.status = 404
    /\ mock_last.op = "get_account"
          => IF mock_last.id \in DOMAIN mock.accounts
             THEN mock_last.ok /\ mock_last.body = mock.accounts[mock_last.id]
             ELSE ~mock_last.ok /\ mock_last.status = 404
    /\ mock_last.op = "get_customer_accounts"
          => IF mock_last.id \in DOMAIN mock.customers
             THEN mock_last.ok /\ mock_last.body = [accounts |-> AccountsOf(mock, mock_last.id)]
             ELSE ~mock_last.ok /\ mock_last.status = 404

\* C18 (as claimed): in non-dry-run mode, once the core-banking or the
\* fraud-scoring system could not be reached at the setup health check, setup
\* is aborted and no customer is created; in dry-run mode setup is never
\* aborted by its health check
C18_HealthCheckAsClaimed ==
    /\ (~setup_cfg.dry_run
         /\ (setup_health.nexum = "unreachable" \/ setup_health.bastion = "unreachable"))
          => /\ setup_pc = "aborted"
             /\ state_customers = <<>>
             /\ mock.customers = <<>>
             /\ setup_stats.customers_created = 0
    /\ setup_cfg.dry_run => setup_pc # "aborted"

\* the runner has stopped waiting and has torn down the engine and, if there
\* is one, the dashboard's WebSocket manager
TornDown ==
    /\ run_pc = "done"
    /\ engine_open # "open"
    /\ ws_manager \notin {"created", "started"}

\* C19 (as claimed): the runner always reaches teardown, when the scenario
\* runs to completion without any shutdown signal and likewise when a signal
\* arrives first
C19_ReachesTeardown == <>TornDown

\* the consumers of a topic that have been started and not stopped
ActiveConsumers(topic) ==
    {c \in DOMAIN kc_objects :
        kc_objects[c].topic = topic /\ kc_objects[c].state = "started"}

\* C20 (as claimed): for every topic at most one consumer is active at any
\* time, under any interleaving of start_consumer and stop_consumer calls
C20_OneConsumerPerTopic == \A topic \in Topics : Cardinality(ActiveConsumers(topic)) <= 1


\* C21: a publish call in which a step fails (the send, or taking the size of
\* the message) returns False and counts one more producer error; it never
\* raises to its caller.
C21_PublishFailuresCaught ==
    kp_last.failure =>
        /\ kp_last.outcome = "False"
        /\ kp_stats.producer_errors = kp_last.before.producer_errors + 1


\* what the request's operation is to make of the engine
ChangeApplied(op, m) ==
    CASE op = "pause" -> pause_requested
      [] op = "resume" -> ~pause_requested
      [] op = "stop" -> stop_requested
      [] op = "speed" -> config_speed = m /\ clock.speed_multiplier = m
      [] op = "start" -> TRUE

\* C22: with an engine attached, every well-formed control request (pause,
\* resume, stop, speed change, start) leaves its change applied to the engine
\* and has handed exactly one event, the one matching the request, to the
\* WebSocket broadcast.
C22_ControlAppliedAndBroadcast ==
    (dash_engine /\ dash_last.op # "none" /\ dash_last.status # 400) =>
        /\ ChangeApplied(dash_last.op, dash_last.multiplier)
        /\ Len(dash_events) = dash_last.events + 1
        /\ dash_events[Len(dash_events)] = EventOf(dash_last.op)


\* C23: the speed multiplier of the loaded configuration stays within what
\* its validation accepts, 0 < speed_multiplier <= 10000 (Speeds), whatever
\* speed changes are requested.
C23_SpeedStaysValid == config_speed \in Speeds


\* C24: constructing a fraud profile or a fraud network over a non-empty list
\* of customers who hold accounts never raises.
C24_ConstructionNeverFails == fr_pc # "raised"



\* C25: when the generation loop of a structuring profile with an individual
\* cap of 9999 (IndividualMax) has ended, every amount generated is at most
\* the cap and the amounts sum to at least the target amount less one
\* transaction's worth.
C25_StructuringReachesTarget ==
    fr_pc = "generated" =>
        /\ \A k \in 1..Len(fr_txns) : fr_txns[k] <= IndividualMax
        /\ SumOf(fr_txns) >= fr_profiles[1].target_amount - IndividualMax


\* the orders in which the events of seq can be passed
Orders(seq) ==
    {[i \in 1..Len(seq) |-> seq[p[i]]] :
        p \in {q \in [1..Len(seq) -> 1..Len(seq)] : \A i, j \in 1..Len(seq) : q[i] = q[j] => i = j}}

\* C26: the view derived from the events active together has the base
\* frequency times the product of their multipliers and the sum of their risk
\* adjustments, whatever the order of the events (1.5 and 2.0 give 3.0; 0.1 and
\* 0.2 give 0.3), and the stored profile stays as it was generated.
C26_EffectsCompose ==
    /\ ev_customer = ev_original
    /\ ev_active # <<>> =>
          /\ \A order \in Orders(ev_active) :
                LET view == apply_event_effects(ev_original, order).returned IN
                /\ FracEq(view.transaction_frequency, ev_view.transaction_frequency)
                /\ view.event_risk_adjustment = ev_view.event_risk_adjustment
          /\ (\E i, j \in 1..Len(ev_active) :
                 /\ Len(ev_active) = 2 /\ i # j
                 /\ ev_active[i].transaction_frequency_multiplier = Frac(3, 2)
                 /\ ev_active[j].transaction_frequency_multiplier = Frac(2, 1)
                 /\ ev_active[i].risk_score_adjustment = 1
                 /\ ev_active[j].risk_score_adjustment = 2)
             => /\ FracEq(ev_view.transaction_frequency,
                          FracMul(ev_original.transaction_frequency, Frac(3, 1)))
                /\ ev_view.event_risk_adjustment = 3

\* two events with different multipliers have been applied together
C26_Witness ==
    /\ Len(ev_active) = 2
    /\ ev_active[1].transaction_frequency_multiplier = Frac(3, 2)
    /\ ev_active[2].transaction_frequency_multiplier = Frac(2, 1)
    /\ ev_active[1].risk_score_adjustment = 1
    /\ ev_active[2].risk_score_adjustment = 2
    /\ ev_view.has_effects


\* C27: after a sweep, every socket that was connected and idle for longer
\* than the threshold (last active before the cutoff) is closed and no longer
\* connected, and every socket that was active within the threshold is still
\* connected.
C27_SweepClosesStale ==
    sw_last.op = "sweep" =>
        \A s \in sw_last.active :
            IF sw_last.info[s] < sw_last.cutoff
            THEN s \notin sw_active /\ s \notin DOMAIN sw_info /\ sw_sock[s] = "closed"
            ELSE s \in sw_active /\ s \in DOMAIN sw_info

\* C28 (as claimed): simulated time never decreases: under any sequence of
\* pause, resume, set_speed (positive multipliers) and reads, no step of the
\* clock lowers the value current_sim_time() returns, so each value read is
\* at least every value read earlier.
C28_SimTimeNeverDecreases ==
    [][get_current_sim_time(clock', now') >= get_current_sim_time(clock, now)]_vars

\* MetricsCollector.record_transaction is the first statement of every
\* _process_single_transaction call: with metrics enabled, the counter
\* transactions_total is the number of calls made
transactions_total == txns_started

BatchInFlight == \E l \in TxLoops : loop[l].pc \notin {"none", "sleep", "done"}

\* C29 (as claimed): every transaction handed to the pipeline is counted
\* exactly once, as processed or as an error: whenever no batch is in flight,
\* transactions_total = transactions_processed + errors, and
\* fraud_transactions <= transactions_processed.
C29_EveryTransactionAccounted ==
    ~BatchInFlight =>
        /\ transactions_total = runtime_stats.transactions_processed + runtime_stats.errors
        /\ runtime_stats.fraud_transactions <= runtime_stats.transactions_processed

\* C30: when the execution phase completes, every background loop has
\* terminated and been awaited before the final report is produced, and no
\* transaction is submitted or counted after the report has been generated.
C30_LoopsEndBeforeReport ==
    /\ [](eng_pc = "reported" => \A l \in Loops : loop[l].pc \in {"none", "done"})
    /\ [][eng_pc = "reported" =>
             UNCHANGED <<txns_started, txns_generated, runtime_stats>>]_vars

\* the report of a run that was stopped from outside after its loops had
\* submitted transactions, with the message-bus loop among the awaited tasks
C30_Witness ==
    /\ eng_pc = "reported"
    /\ stop_requested
    /\ txns_started > 0
    /\ runtime_stats.transactions_processed > 0
    /\ \A l \in Loops : loop[l].pc = "done"

\* C31: engine teardown stops the collector and closes the message-bus
\* connector (when present), the fraud-scoring connector and the core-banking
\* connector in that order, after every background loop was cancelled and
\* awaited: nothing is stopped or closed while a loop's task is still alive.
C31_TeardownOrder ==
    /\ \E n \in 0..4 :
          td_closed = SubSeq(IF kafka_kind # "none"
                             THEN <<"metrics", "kafka", "bastion", "nexum">>
                             ELSE <<"metrics", "bastion", "nexum">>, 1, n)
    /\ (td_pc \notin {"open", "gather"}) => \A l \in Loops : loop[l].pc \in {"none", "done"}
    /\ td_pc = "exited" => Len(td_closed) = IF kafka_kind # "none" THEN 4 ELSE 3

\* a teardown that found a loop in the middle of a transaction and the
\* message-bus loop asleep, and closed all four components
C31_Witness ==
    /\ td_pc = "exited"
    /\ "kafka" \in td_cancelled
    /\ \E l \in TxLoops : l \in td_cancelled
    /\ txns_started > runtime_stats.transactions_processed
    /\ Len(td_closed) = 4

\* C32 (as claimed): the transactions of a fraud profile are submitted at
\* most once per run: the fraud loop does not materialise and submit them
\* again on a later tick of the profile's interval, so the deposits submitted
\* for a structuring profile never total more than its target amount.
C32_ProfileSubmittedOnce ==
    /\ fl_batches <= 1
    /\ fr_profiles # <<>> => fl_submitted <= fr_profiles[1].target_amount

RECURSIVE BalanceSum(_)
BalanceSum(accounts) ==
    IF DOMAIN accounts = {} THEN 0
    ELSE LET a == CHOOSE x \in DOMAIN accounts : TRUE
         IN  accounts[a].balance + BalanceSum([x \in (DOMAIN accounts) \ {a} |-> accounts[x]])

\* C33 (as claimed): the mock ledger's balances agree with the reported
\* outcomes: no balance is negative, a deposit reported processed raises the
\* sum of all balances by its amount, a processed withdrawal or outbound
\* transfer lowers it by its amount, and a processed transfer between two
\* accounts of the ledger (also from an account to itself) and any declined
\* call leave the sum unchanged.  Amounts are in quarter cents, balances in
\* cents.
C33_BalancesMatchOutcomes ==
    /\ \A a \in DOMAIN mock.accounts : mock.accounts[a].balance >= 0
    /\ mock_last.op \in {"deposit", "withdraw", "transfer"} =>
          LET before == 4 * BalanceSum(mock_last.before.accounts)
              after == 4 * BalanceSum(mock.accounts)
          IN  after =
                 CASE mock_last.body.state # "processed" -> before
                   [] mock_last.body.state = "processed" /\ mock_last.op = "deposit" ->
                         before + mock_last.amount
                   [] mock_last.body.state = "processed" /\ mock_last.op = "withdraw" ->
                         before - mock_last.amount
                   [] OTHER -> IF mock_last.to = None THEN before - mock_last.amount
                               ELSE before

DoneCalls(ops) == {i \in DOMAIN mc_calls : mc_calls[i].pc = "done" /\ mc_calls[i].op \in ops}

\* C34: under any interleaving of concurrent create-customer, create-account,
\* deposit, withdraw and transfer calls on the mock ledger, every customer id,
\* account id and transaction id handed out is unique, and no stored record
\* is overwritten by a later creation.
C34_IdsUnique ==
    /\ \A i, j \in DoneCalls({"create_customer", "create_account", "deposit",
                              "withdraw", "transfer"}) :
          i # j => mc_calls[i].returned # mc_calls[j].returned
    /\ Cardinality(DOMAIN mock.customers) = Cardinality(DoneCalls({"create_customer"}))
    /\ Cardinality(DOMAIN mock.accounts) = Cardinality(DoneCalls({"create_account"}))
    /\ \A i \in DoneCalls({"create_account"}) :
          /\ mc_calls[i].returned \in DOMAIN mock.accounts
          /\ mock.accounts[mc_calls[i].returned].customer_id = mc_calls[i].id

\* three calls were asleep together and were served in another order than
\* they were issued: two account creations for different customers and a
\* transaction
C34_Witness ==
    /\ Len(mc_served) = 3
    /\ mc_served[1] = 3
    /\ mc_served[3] = 1
    /\ Cardinality(DoneCalls({"create_account"})) = 2
    /\ \E i, j \in DoneCalls({"create_account"}) : mc_calls[i].id # mc_calls[j].id
    /\ DoneCalls({"deposit", "withdraw", "transfer"}) # {}

\* C35 (as claimed): close_all_connections closes every socket it removes
\* from the manager: under any interleaving with concurrent connect calls, no
\* accepted socket whose transport is still open is missing from the active
\* set or from the connection-info map.
C35_CloseAllClosesWhatItRemoves ==
    \A s \in Sockets :
        ws_sock[s] = "open" => s \in active_connections /\ s \in DOMAIN connection_info

\* C36: during the execution phase the loops never modify the customer list,
\* the customer-to-accounts mapping or the life-event schedule: the stored
\* profile and the mapping stay as setup left them, no account id is removed,
\* the schedule is never written, and the per-tick overlay goes to a copy.
C36_SetupStateNotModified ==
    /\ [](ev_customer = ev_original /\ st_accounts = st_setup)
    /\ [][ev_events' = ev_events /\ ev_customer' = ev_customer
             /\ st_accounts' = st_accounts]_vars

\* a pass has applied an overlay to a customer and generated transactions on
\* the customer's two accounts
C36_Witness ==
    /\ ev_view.has_effects
    /\ ev_view.transaction_frequency # ev_customer.transaction_frequency
    /\ Len(st_account_ids) = 2
    /\ st_batch > 0

\* C37: after k successfully scored transactions on a fraud-scoring connector,
\* real or mock, transactions_scored is k and each transaction is counted
\* once under its own decision, so the three decision counts sum to k.
C37_ScoredCountedOnce ==
    /\ bs_stats.transactions_scored = DecisionSum(bs_returned)
    /\ DecisionSum(bs_stats.decisions) = DecisionSum(bs_returned)
    /\ bs_stats.decisions = bs_returned

\* the same, on the connector that talks to the service
C37_RealCountedOnce ==
    ~bs_mock => /\ bs_stats.transactions_scored = DecisionSum(bs_returned)
                /\ bs_stats.decisions = bs_returned

\* C38: in every generated layering sequence the source account of hop i+1
\* is the destination account of hop i, and hop i+1 is timestamped 10 to 60
\* minutes after hop i, so the timestamps strictly increase along the chain.
C38_HopsOrdered ==
    \A i \in 1..(Len(ly_txns) - 1) :
        /\ ly_txns[i + 1].from_account_id = ly_txns[i].to_account_id
        /\ ly_txns[i + 1].timestamp - ly_txns[i].timestamp \in 10..60

\* the account half of it: the hops follow the shuffle
C38_ChainLinked ==
    \A i \in 1..(Len(ly_txns) - 1) :
        ly_txns[i + 1].from_account_id = ly_txns[i].to_account_id

\* C39: every life event scheduled at setup has its event date within the
\* run horizon: no earlier than the simulation start and no later than the
\* simulation start plus duration_hours.
C39_EventsWithinHorizon ==
    \A i \in 1..Len(sch_active) :
        /\ sch_active[i].event_date >= 0
        /\ sch_active[i].event_date <= sch_hours

\* the lower half of it: no event is dated before the simulation start
C39_EventsNotBeforeStart ==
    \A i \in 1..Len(sch_active) : sch_active[i].event_date >= 0

\* C40: get_builtin_scenario is repeatable: every call for a built-in name
\* succeeds, calls for the same name return equal configurations, and the
\* catalogue, its nested fraud-pattern entries included, stays unchanged.
C40_BuiltinRepeatable ==
    /\ \A i \in 1..Len(sc_results) : ~sc_results[i].raised
    /\ \A i, j \in 1..Len(sc_results) :
          sc_results[i].name = sc_results[j].name
              => sc_results[i].config = sc_results[j].config
    /\ catalogue = BUILTIN_SCENARIOS

\* what does hold: the first call for each name succeeds
C40_FirstCallSucceeds ==
    \A i \in 1..Len(sc_results) :
        (\A j \in 1..(i - 1) : sc_results[j].name # sc_results[i].name)
            => ~sc_results[i].raised

====
